---- MODULE Spec2Model ----
(***************************************************************************)
(* Model of the OneSignal web SDK's service worker lifecycle manager,      *)
(* push subscription manager and page/worker messenger.                    *)
(*                                                                         *)
(* Strings whose structure matters (paths, URLs) are sequences of tokens:  *)
(* "/OneSignalSDKWorker.js" is <<"/", "OneSignalSDKWorker.js">>.  The      *)
(* separators "/", "\\" and "?" are tokens of their own, so splitting and   *)
(* concatenating do what the string operations of the source do.           *)
(***************************************************************************)
EXTENDS Integers, Sequences, FiniteSets, TLC

VARIABLES
  env,            \* SdkEnvironment.getWindowEnv(): the execution context
  config,         \* AppConfig / manager configuration (fixed per behaviour)
  browser,        \* browser capabilities (fixed per behaviour)
  registrations,  \* platform: scope -> service worker registration
  controller,     \* platform: navigator.serviceWorker.controller (script URL)
  permission,     \* platform: notification permission
  pushSubscription, \* platform: the page registration's push subscription
  db,             \* Database: Ids.userId, Options.optedOut, Options.registrationId
  replies,        \* WorkerMessengerReplyBuffer.replies: command -> listener records
  toWorker,       \* messages posted by the page, not yet received by the worker
  toPage,         \* messages posted by the worker, not yet received by the page
  listening,      \* the page has installed its message handler (listen())
  op,             \* the top-level call in progress ("none" when idle)
  pc,             \* position of that call (the await it is suspended at)
  locals,         \* local variables of the call in progress
  result,         \* outcome of the call: "pending", "ok" or the error thrown
  events,         \* effects of the call in progress, in order
  inbox,          \* worker: window client -> messages posted to it
  serial,         \* a Subscription on its way through serialize/deserialize
  suspended       \* a second call, suspended at an await while `op' runs

vars == <<env, config, browser, registrations, controller, permission,
          pushSubscription, db, replies, toWorker, toPage, listening,
          op, pc, locals, result, events, inbox, serial, suspended>>

(***************************************************************************)
(* Bounds                                                                  *)
(***************************************************************************)
MaxVersion == 2

\* on/once/off calls and messages received in a behaviour of the messenger
MaxRequests == 4

(***************************************************************************)
(* Token strings                                                           *)
(***************************************************************************)
EmptyStr == <<>>

IsSeparator(tok) == tok = "/" \/ tok = "\\"

\* Index of the last token of s satisfying IsSeparator, 0 if none.
LastSeparatorIndex(s) ==
  LET idx == {i \in 1..Len(s) : IsSeparator(s[i])}
  IN IF idx = {} THEN 0 ELSE CHOOSE i \in idx : \A j \in idx : j <= i

\* String.prototype.trim
Trim(s) ==
  LET keep == {i \in 1..Len(s) : s[i] # " "}
  IN IF keep = {} THEN EmptyStr
     ELSE SubSeq(s, CHOOSE i \in keep : \A j \in keep : i <= j,
                    CHOOSE i \in keep : \A j \in keep : j <= i)

(***************************************************************************)
(* models/Path.ts                                                          *)
(***************************************************************************)
Path(path) == Trim(path)

getFileName(p) == SubSeq(p, LastSeparatorIndex(p) + 1, Len(p))

getPathWithoutFileName(p) ==
  LET fileNameIndex == Len(p) - Len(getFileName(p))
      pathWithoutFileName == SubSeq(p, 1, fileNameIndex)
  IN IF pathWithoutFileName # EmptyStr /\ IsSeparator(pathWithoutFileName[Len(pathWithoutFileName)])
     THEN SubSeq(pathWithoutFileName, 1, Len(pathWithoutFileName) - 1)
     ELSE pathWithoutFileName

(***************************************************************************)
(* URLs as the platform sees them                                          *)
(***************************************************************************)
Origin == "https://site.com"

\* The absolute script URL the platform derives from the path handed to register().
ScriptURL(fullWorkerPath) == <<Origin>> \o fullWorkerPath

\* new URL(url).pathname: the part after the origin, up to the query.
UrlPathname(url) ==
  LET rest == Tail(url)
      q == {i \in 1..Len(rest) : rest[i] = "?"}
  IN IF q = {} THEN rest
     ELSE SubSeq(rest, 1, (CHOOSE i \in q : \A j \in q : i <= j) - 1)

\* utils.encodeHashAsUriComponent({appId: ...}): key=value pairs, no leading "?".
encodeHashAsUriComponent(appId) == <<"appId=" \o appId>>

(***************************************************************************)
(* Configuration (models/Context.ts)                                       *)
(***************************************************************************)
AppId == "app1"

DefaultPaths ==
  [workerAPath |-> Path(<<"/", "OneSignalSDKWorker.js">>),
   workerBPath |-> Path(<<"/", "OneSignalSDKUpdaterWorker.js">>)]

\* userConfig.path = "/sub/" with the default worker file names
CustomPaths ==
  [workerAPath |-> Path(<<"/", "sub", "/", "OneSignalSDKWorker.js">>),
   workerBPath |-> Path(<<"/", "sub", "/", "OneSignalSDKUpdaterWorker.js">>)]

PathPairs == {DefaultPaths, CustomPaths}

\* registrationOptions: { scope: '/' }
ConfigScope == <<"/">>

ThirdPartyPath == <<"/", "another-service-worker.js">>

(***************************************************************************)
(* Platform: service worker registrations                                  *)
(***************************************************************************)
NoWorker == EmptyStr

NoRegistration == [installing |-> NoWorker, active |-> NoWorker]

\* The page is served from the root of the origin.
PageScope == <<"/">>

Scopes == {<<"/">>, <<"/", "sub", "/">>}

RegPresent(reg) == reg.installing # NoWorker \/ reg.active # NoWorker

\* navigator.serviceWorker.getRegistration(): the registration whose scope
\* contains the page, NoRegistration for undefined.
getRegistration == registrations[PageScope]

\* Script paths the site is known to serve.
HostedPaths ==
  {config.workerAPath, config.workerBPath, ThirdPartyPath}

\* The registration after a successful register(url, {scope}): re-registering
\* the script a registration already runs installs nothing.
PlatformRegister(url, scope) ==
  LET reg == registrations[scope]
      newest == IF reg.installing # NoWorker THEN reg.installing ELSE reg.active
  IN IF newest = url THEN registrations
     ELSE [registrations EXCEPT ![scope].installing = url]

IsSdkScript(url) ==
  UrlPathname(url) \in {config.workerAPath, config.workerBPath}

(***************************************************************************)
(* managers/ServiceWorkerManager.ts                                        *)
(***************************************************************************)
ServiceWorkerActiveState == {"WorkerA", "WorkerB", "ThirdParty", "None", "Bypassed"}

\* Variant: the controller is looked at before the active worker.
getActiveStateControllerFirst ==
  LET workerRegistration == getRegistration
      workerScriptPath == UrlPathname(workerRegistration.active)
  IN IF ~RegPresent(workerRegistration) THEN "None"
     ELSE IF controller = NoWorker THEN "Bypassed"
     ELSE IF workerRegistration.active = NoWorker THEN "ThirdParty"
     ELSE IF getFileName(Path(workerScriptPath)) = getFileName(config.workerAPath)
       THEN "WorkerA"
     ELSE IF getFileName(Path(workerScriptPath)) = getFileName(config.workerBPath)
       THEN "WorkerB"
     ELSE "ThirdParty"

getActiveState ==
  LET workerRegistration == getRegistration
      workerScriptPath == UrlPathname(workerRegistration.active)
  IN IF ~RegPresent(workerRegistration) THEN "None"
     ELSE IF workerRegistration.active = NoWorker THEN "ThirdParty"
     ELSE IF controller = NoWorker THEN "Bypassed"
     ELSE IF getFileName(Path(workerScriptPath)) = getFileName(config.workerAPath)
       THEN "WorkerA"
     ELSE IF getFileName(Path(workerScriptPath)) = getFileName(config.workerBPath)
       THEN "WorkerB"
     ELSE "ThirdParty"

(***************************************************************************)
(* Calls in progress                                                       *)
(***************************************************************************)
NoPayload == 0
Versions == 1..MaxVersion

\* Environment.version(): the version of the SDK the page runs.
SdkVersion == 1

NoRawPushSubscription ==
  [w3cEndpoint |-> EmptyStr, safariDeviceToken |-> EmptyStr]

NoOptions == [userVisibleOnly |-> TRUE, applicationServerKey |-> EmptyStr]

NoPushSubscription ==
  [present |-> FALSE, options |-> NoOptions, endpoint |-> EmptyStr]

\* What the call found when it started (kept for the properties below).
Snapshot ==
  [state |-> getActiveState, push |-> pushSubscription, userId |-> db.userId,
   optedOut |-> db.optedOut, registrationId |-> db.registrationId,
   permission |-> permission,
   active |-> getRegistration.active]

\* The platform as a getActiveState() call saw it, and what it returned.
NoRead ==
  [valid |-> FALSE, value |-> "None",
   registrations |-> [s \in Scopes |-> NoRegistration], controller |-> NoWorker]

DefaultLocals ==
  [workerState |-> "None", workerVersion |-> NoPayload,
   read |-> NoRead, previousRead |-> NoRead,
   versionState |-> "unread",
   firstCheck |-> "unread", controlEventHandled |-> FALSE,
   strategy |-> "none", installCheck |-> "unread",
   notificationPermissionBeforeSubscribing |-> "unread",
   rawPushSubscription |-> NoRawPushSubscription,
   existingPushSubscription |-> NoPushSubscription,
   options |-> NoOptions, alreadyRegistered |-> FALSE,
   newDeviceId |-> EmptyStr, start |-> Snapshot]

Event(e, a) == [e |-> e, a |-> a]

Idle == pc = "done"

\* A top-level call starts: a fresh activation record.
Call(name) ==
  /\ Idle
  /\ op' = name
  /\ locals' = DefaultLocals
  /\ events' = <<>>

\* The call in progress throws err to its caller.
Throw(err) ==
  /\ pc' = "done"
  /\ result' = err

\* The call in progress returns normally.
Return ==
  /\ pc' = "done"
  /\ result' = "ok"

Platform == <<registrations, controller, permission, pushSubscription>>
Messenger == <<replies, toWorker, toPage, listening>>
Fixed == <<env, config, browser, inbox, serial, suspended>>

(***************************************************************************)
(* ServiceWorkerManager.getActiveState, called directly                    *)
(***************************************************************************)
\* The call starts; what the call before it read is kept for comparison.
CallGetActiveState ==
  /\ env \in {"Host", "OneSignalProxyFrame"}
  /\ Idle
  /\ op' = "getActiveState"
  /\ locals' = [DefaultLocals EXCEPT
                  !.previousRead = IF op = "getActiveState" THEN locals.read ELSE NoRead]
  /\ events' = <<>>
  /\ pc' = "get_state"
  /\ result' = "pending"
  /\ UNCHANGED <<Fixed, Platform, db, Messenger>>

\* Variant: the call makes the active worker the page's controller.
GetActiveStateClaimingControl ==
  /\ pc = "get_state"
  /\ locals' = [locals EXCEPT
                  !.workerState = getActiveState,
                  !.read = [valid |-> TRUE, value |-> getActiveState,
                            registrations |-> registrations, controller |-> controller]]
  /\ controller' = getRegistration.active
  /\ Return
  /\ UNCHANGED <<Fixed, registrations, permission, pushSubscription, db,
                 Messenger, op, events>>

\* After await navigator.serviceWorker.getRegistration(): the registration
\* and the controller are read and the state is returned.
GetActiveStateReturn ==
  /\ pc = "get_state"
  /\ locals' = [locals EXCEPT
                  !.workerState = getActiveState,
                  !.read = [valid |-> TRUE, value |-> getActiveState,
                            registrations |-> registrations, controller |-> controller]]
  /\ Return
  /\ UNCHANGED <<Fixed, Platform, db, Messenger, op, events>>

(***************************************************************************)
(* ServiceWorkerManager.installWorker                                      *)
(***************************************************************************)
CallInstallWorker ==
  /\ env \in {"Host", "OneSignalProxyFrame"}
  /\ Call("installWorker")
  /\ pc' = "install"
  /\ result' = "pending"
  /\ UNCHANGED <<Fixed, Platform, db, Messenger>>

\* Variant: every registration found is unregistered first.
UnregistersAnyRegistration(workerState) == workerState # "None"

\* workerState === ServiceWorkerActiveState.ThirdParty
UnregistersFirst(workerState) == workerState = "ThirdParty"

\* const workerState = await this.getActiveState();
InstallWorkerGetState ==
  /\ pc = "install"
  /\ locals' = [locals EXCEPT !.workerState = getActiveState]
  /\ pc' = IF UnregistersFirst(getActiveState) THEN "install_unregister"
           ELSE "install_register"
  /\ UNCHANGED <<Fixed, Platform, db, Messenger, op, result, events>>

\* const workerRegistration = await navigator.serviceWorker.getRegistration();
\* await workerRegistration.unregister();
\* Unregistering removes the registration and its push subscription; the page
\* stays controlled by the old worker until it is reloaded.
InstallWorkerUnregister ==
  /\ pc = "install_unregister"
  /\ IF ~RegPresent(getRegistration)
     THEN /\ Throw("TypeError")
          /\ UNCHANGED <<Platform, events>>
     ELSE /\ registrations' = [registrations EXCEPT ![PageScope] = NoRegistration]
          /\ pushSubscription' = [pushSubscription EXCEPT !.present = FALSE]
          /\ events' = Append(events, Event("unregister", PageScope))
          /\ pc' = "install_register"
          /\ UNCHANGED <<controller, permission, result>>
  /\ UNCHANGED <<Fixed, db, Messenger, op, locals>>

\* The slot installWorker registers for the state it read.
InstallSlotPath(workerState) ==
  IF workerState \in {"WorkerA", "ThirdParty", "None"}
  THEN config.workerBPath ELSE config.workerAPath

\* The URL path and query installWorker builds from that slot.
InstallTargetPath(workerState) ==
  LET target == InstallSlotPath(workerState)
      workerDirectory == getPathWithoutFileName(target)
      workerFileName == getFileName(target)
  IN workerDirectory \o <<"/">> \o workerFileName
       \o encodeHashAsUriComponent(config.appId)

\* Variant: register() without the configured options, so that the scope is
\* the directory of the worker script.
ScopeOfScriptDirectory == getPathWithoutFileName(config.workerAPath) \o <<"/">>

\* The scope a register() call of the manager names.
RegistrationScope == config.registrationOptions.scope

\* What follows a completed installWorker(): subscribeFcmFromPage goes on to
\* await navigator.serviceWorker.ready, a direct call returns.
AfterInstall ==
  IF op \in {"subscribe", "registerForPush"}
  THEN /\ pc' = "ready"
       /\ UNCHANGED result
  ELSE Return

\* await navigator.serviceWorker.register(fullWorkerPath, registrationOptions)
\* made by the call in progress; a script the site does not serve may make
\* the platform reject the call.
Register(fullWorkerPath, next) ==
  LET url == ScriptURL(fullWorkerPath)
  IN /\ events' = Append(events, Event("register", url))
     /\ \/ /\ registrations' = PlatformRegister(url, RegistrationScope)
           /\ next
        \/ /\ UrlPathname(url) \notin HostedPaths
           /\ Throw("RegisterRejected")
           /\ UNCHANGED registrations

\* Variant: the Bypassed state is not told apart.
NeverBypassed(workerState) == FALSE

\* workerState === ServiceWorkerActiveState.Bypassed
IsBypassed(workerState) == workerState = "Bypassed"

InstallWorkerRegister ==
  /\ pc = "install_register"
  /\ IF IsBypassed(locals.workerState)
     THEN /\ Throw("UnsupportedEnvironment")
          /\ UNCHANGED <<registrations, events>>
     ELSE Register(InstallTargetPath(locals.workerState), AfterInstall)
  /\ UNCHANGED <<Fixed, controller, permission, pushSubscription, db,
                 Messenger, op, locals>>

(***************************************************************************)
(* libraries/WorkerMessenger.ts                                            *)
(***************************************************************************)
WorkerMessengerCommand == {"GetWorkerVersion", "Subscribe"}

Message(command, payload) == [command |-> command, payload |-> payload]

\* this.replies[command] of a command that has no array: undefined at first,
\* null after deleteListenerRecords.
Absent == <<[callback |-> "null", onceListenerOnly |-> FALSE]>>

\* WorkerMessengerReplyBuffer.findListenersForMessage:
\* this.replies[command.toString()] || []
findListenersForMessage(command) ==
  IF replies[command] = Absent THEN <<>> ELSE replies[command]

\* Variant: off() deletes nothing.
deleteNoListenerRecords(command) == replies

\* WorkerMessengerReplyBuffer.deleteListenerRecords
deleteListenerRecords(command) == [replies EXCEPT ![command] = Absent]

\* WorkerMessengerReplyBuffer.addListener
addListener(command, callback, onceListenerOnly) ==
  LET record == [callback |-> callback, onceListenerOnly |-> onceListenerOnly]
  IN IF Len(findListenersForMessage(command)) > 0
     THEN [replies EXCEPT ![command] = Append(@, record)]
     ELSE [replies EXCEPT ![command] = <<record>>]

\* Variant: any controller counts as a worker of the SDK.
AnyControllerControlsPage == controller # NoWorker

\* WorkerMessenger.isWorkerControllingPage: in the worker
\* !!self.registration.active, in a page whether the active state is
\* WorkerA or WorkerB.
isWorkerControllingPage ==
  IF env = "ServiceWorker" THEN getRegistration.active # NoWorker
  ELSE getActiveState \in {"WorkerA", "WorkerB"}

(***************************************************************************)
(* ServiceWorkerManager.getWorkerVersion / updateWorker                    *)
(***************************************************************************)
CallUpdateWorker ==
  /\ env \in {"Host", "OneSignalProxyFrame"}
  /\ Call("updateWorker")
  /\ pc' = "update"
  /\ result' = "pending"
  /\ UNCHANGED <<Fixed, Platform, db, Messenger>>

\* const workerState = await this.getActiveState();
UpdateWorkerGetState ==
  /\ pc = "update"
  /\ locals' = [locals EXCEPT !.workerState = getActiveState]
  /\ pc' = "version"
  /\ UNCHANGED <<Fixed, Platform, db, Messenger, op, result, events>>

\* A direct call of getWorkerVersion().
CallGetWorkerVersion ==
  /\ env \in {"Host", "OneSignalProxyFrame"}
  /\ Call("getWorkerVersion")
  /\ pc' = "version"
  /\ result' = "pending"
  /\ UNCHANGED <<Fixed, Platform, db, Messenger>>

\* Variant: every state passes for an activated SDK worker.
AnyStateActivated(workerState) == TRUE

\* !(workerState !== WorkerA && workerState !== WorkerB)
IsSdkWorkerState(workerState) == workerState \in {"WorkerA", "WorkerB"}

\* getWorkerVersion(): throws unless worker A or B is active, otherwise
\* registers the one-shot reply listener and starts unicast().
GetWorkerVersion ==
  /\ pc = "version"
  /\ locals' = [locals EXCEPT !.versionState = getActiveState]
  /\ IF ~IsSdkWorkerState(getActiveState)
     THEN /\ Throw("ServiceWorkerNotActivated")
          /\ UNCHANGED replies
     ELSE /\ replies' = addListener("GetWorkerVersion", "resolveWorkerVersion", TRUE)
          /\ pc' = "unicast_wait"
          /\ UNCHANGED result
  /\ UNCHANGED <<Fixed, Platform, db, toWorker, toPage, listening, op, events>>

\* A direct call of unicast(command) in a page.
CallUnicast ==
  /\ env \in {"Host", "OneSignalProxyFrame"}
  /\ Call("unicast")
  /\ Len(toWorker) < MaxRequests
  /\ pc' = "unicast_wait"
  /\ result' = "pending"
  /\ UNCHANGED <<Fixed, Platform, db, Messenger>>

\* A direct call of waitUntilWorkerControlsPage(), in a page or the worker.
CallWaitUntilWorkerControlsPage ==
  /\ env \in {"Host", "OneSignalProxyFrame", "ServiceWorker"}
  /\ env = "ServiceWorker" => RegPresent(getRegistration)
  /\ Call("waitUntilWorkerControlsPage")
  /\ pc' = "unicast_wait"
  /\ result' = "pending"
  /\ UNCHANGED <<Fixed, Platform, db, Messenger>>

\* The message the call in progress sends to the worker.
UnicastMessage ==
  IF op = "unicast" THEN Message("Subscribe", NoPayload)
  ELSE Message("GetWorkerVersion", NoPayload)

\* navigator.serviceWorker.controller.postMessage({command, payload}), which
\* runs in the turn in which waitUntilWorkerControlsPage() resolved.
UnicastPost ==
  /\ toWorker' = Append(toWorker, UnicastMessage)
  /\ events' = Append(events, Event("postMessage", <<UnicastMessage.command>>))
  /\ IF op = "unicast" THEN Return
     ELSE pc' = "version_reply" /\ UNCHANGED result

\* waitUntilWorkerControlsPage(): resolves at once if isWorkerControllingPage()
\* holds, and otherwise listens for the control event (activate in the
\* worker, controllerchange in a page), whose handler makes the same check
\* and resolves only if it holds.  unicast() then posts.  (The
\* isWorkerControllingPage() unicast() makes before it only logs.)
UnicastWaitUntilWorkerControlsPage ==
  /\ pc \in {"unicast_wait", "unicast_event"}
  /\ locals' = [locals EXCEPT
                  !.firstCheck = IF pc # "unicast_wait" THEN @
                                 ELSE IF isWorkerControllingPage THEN "controlled"
                                 ELSE "uncontrolled",
                  !.controlEventHandled = @ \/ pc = "unicast_event"]
  /\ IF isWorkerControllingPage
     THEN IF op = "waitUntilWorkerControlsPage"
          THEN /\ Return
               /\ UNCHANGED <<toWorker, events>>
          ELSE UnicastPost
     ELSE /\ pc' = "unicast_listen"
          /\ UNCHANGED <<toWorker, events, result>>
  /\ UNCHANGED <<Fixed, Platform, db, replies, toPage, listening, op>>

\* The worker answers a version request with the version of its script.
WorkerReceive ==
  /\ toWorker # <<>>
  /\ toWorker' = Tail(toWorker)
  /\ \E v \in Versions :
       toPage' = IF Head(toWorker).command = "GetWorkerVersion"
                 THEN Append(toPage, Message("GetWorkerVersion", v))
                 ELSE toPage
  /\ UNCHANGED <<Fixed, Platform, db, replies, listening, op, pc, locals,
                 result, events>>

\* Variant: every record of the command is deleted.
RemainingNone(command) == <<>>

\* The listener records left after a message with this command: the one-shot
\* records are deleted.
RemainingListeners(command) ==
  SelectSeq(findListenersForMessage(command), LAMBDA r : ~r.onceListenerOnly)

\* The reply buffer after the handler's deleteListenerRecord calls, one per
\* one-shot record found; without one the buffer is not touched.
AfterDeletingOneShots(command) ==
  IF \E i \in 1..Len(findListenersForMessage(command)) :
       findListenersForMessage(command)[i].onceListenerOnly
  THEN [replies EXCEPT ![command] = RemainingListeners(command)]
  ELSE replies

\* Variant: the records are called last registered first.
ListenersToCallReversed(listenerRecords) ==
  [i \in 1..Len(listenerRecords) |-> listenerRecords[Len(listenerRecords) + 1 - i]]

\* listenersToCall: every record found, in the order of the buffer.
ListenersToCall(listenerRecords) == listenerRecords

\* onPageMessageReceivedFromServiceWorker: one-shot records are deleted, then
\* every record found is called with the payload.  A message that arrives
\* before listen() installed the handler is lost.
PageReceive ==
  /\ toPage # <<>>
  /\ toPage' = Tail(toPage)
  /\ LET data == Head(toPage)
         listenersToCall == IF listening
                            THEN ListenersToCall(findListenersForMessage(data.command))
                            ELSE <<>>
         resolves == \E i \in 1..Len(listenersToCall) :
                        listenersToCall[i].callback = "resolveWorkerVersion"
     IN /\ replies' = IF listening
                      THEN AfterDeletingOneShots(data.command)
                      ELSE replies
        /\ events' = IF listening
                     THEN Append(events, Event("message", data))
                     ELSE events
        /\ IF resolves /\ pc = "version_reply"
           THEN /\ locals' = [locals EXCEPT !.workerVersion = data.payload]
                /\ IF op = "updateWorker"
                   THEN pc' = "update_decide" /\ UNCHANGED result
                   ELSE Return
           ELSE UNCHANGED <<locals, pc, result>>
  /\ UNCHANGED <<Fixed, Platform, db, toWorker, listening, op>>

\* Variant: the slot that is active is registered again.
UpdateSlotPathUnswapped(workerState) ==
  IF workerState = "WorkerA" THEN config.workerAPath ELSE config.workerBPath

\* The slot updateWorker registers for the state it read: the other one.
UpdateSlotPath(workerState) ==
  IF workerState = "WorkerA" THEN config.workerBPath ELSE config.workerAPath

\* The URL path and query updateWorker builds from that slot.
UpdateTargetPath(workerState) ==
  LET target == UpdateSlotPath(workerState)
      workerDirectory == getPathWithoutFileName(target)
      workerFileName == getFileName(target)
  IN workerDirectory \o <<"/">> \o workerFileName \o <<"?">>
       \o encodeHashAsUriComponent(config.appId)

\* Variant: the worker's version is not compared.
NeedsUpdateAlways(workerVersion) == TRUE

\* workerVersion !== Environment.version()
NeedsUpdate(workerVersion) == workerVersion # SdkVersion

\* updateWorker() after the version reply.
UpdateWorkerDecide ==
  /\ pc = "update_decide"
  /\ IF locals.workerState \notin {"WorkerA", "WorkerB"}
     THEN /\ Return
          /\ UNCHANGED <<registrations, events>>
     ELSE IF NeedsUpdate(locals.workerVersion)
     THEN Register(UpdateTargetPath(locals.workerState), Return)
     ELSE /\ Return
          /\ UNCHANGED <<registrations, events>>
  /\ UNCHANGED <<Fixed, controller, permission, pushSubscription, db,
                 Messenger, op, locals>>

(***************************************************************************)
(* Platform steps                                                          *)
(***************************************************************************)
\* Variant: the activation fires no control event.
PlatformActivateUnheard ==
  \E scope \in Scopes, claims \in BOOLEAN :
    LET reg == registrations[scope]
        takes == scope = PageScope
                 /\ (controller # NoWorker \/ claims \/ IsSdkScript(reg.installing))
    IN /\ reg.installing # NoWorker
       /\ claims = TRUE \/ ~IsSdkScript(reg.installing)
       /\ registrations' = [registrations EXCEPT
                              ![scope] = [installing |-> NoWorker, active |-> reg.installing]]
       /\ controller' = IF takes THEN reg.installing ELSE controller
       /\ UNCHANGED <<Fixed, permission, pushSubscription, db, Messenger, op, pc,
                      locals, result, events>>

\* An installing worker activates (the SDK's workers skip waiting).  The new
\* worker takes over a page the registration already controls; the SDK's
\* workers also claim a page nobody controls, other workers may or may not.
\* A change of controller fires controllerchange.
PlatformActivate ==
  \E scope \in Scopes, claims \in BOOLEAN :
    LET reg == registrations[scope]
        takes == scope = PageScope
                 /\ (controller # NoWorker \/ claims \/ IsSdkScript(reg.installing))
    IN /\ reg.installing # NoWorker
       /\ claims = TRUE \/ ~IsSdkScript(reg.installing)
       /\ registrations' = [registrations EXCEPT
                              ![scope] = [installing |-> NoWorker, active |-> reg.installing]]
       /\ controller' = IF takes THEN reg.installing ELSE controller
       /\ pc' = IF /\ pc = "unicast_listen"
                   /\ IF env = "ServiceWorker" THEN scope = PageScope ELSE takes
                THEN "unicast_event" ELSE pc
       /\ UNCHANGED <<Fixed, permission, pushSubscription, db, Messenger, op,
                      locals, result, events>>

\* navigator.serviceWorker.register called elsewhere on the site (another
\* tab, an earlier visit): a script starts installing.
PlatformInstall ==
  \E scope \in Scopes,
     path \in {config.workerAPath, config.workerBPath, ThirdPartyPath} :
    LET url == IF path = ThirdPartyPath THEN ScriptURL(path)
               ELSE ScriptURL(path \o <<"?">> \o encodeHashAsUriComponent(config.appId))
    IN /\ registrations[scope].installing = NoWorker
       /\ registrations' = PlatformRegister(url, scope)
       /\ registrations' # registrations
       /\ UNCHANGED <<Fixed, controller, permission, pushSubscription, db,
                      Messenger, op, pc, locals, result, events>>

(***************************************************************************)
(* Platform: push manager, permission; collaborators: Database, backend    *)
(***************************************************************************)
WindowEnvironmentKind ==
  {"ServiceWorker", "Host", "OneSignalProxyFrame", "OneSignalSubscriptionPopup",
   "OneSignalSubscriptionModal", "CustomIframe"}

NotificationPermission == {"default", "granted", "denied"}

DeviceIds == {<<"id1">>, <<"id2">>}

Endpoints == {<<"https://push.example/", "ep1">>, <<"https://push.example/", "ep2">>}

\* A VAPID public key, base64url text, one token per character.
VapidPublicKey == <<"B", "-", "_", "x", "Q">>

\* The key of a subscription some other sender made earlier.
ForeignKey == <<"ArrayBuffer", "F", "+", "/", "g">>

\* String.prototype.toLowerCase on the tokens the model uses.
toLowerCase(s) ==
  [i \in 1..Len(s) |->
     CASE s[i] = "A1B2" -> "a1b2"
       [] s[i] = "Worker-A.js" -> "worker-a.js"
       [] s[i] = "Worker-B.js" -> "worker-b.js"
       [] s[i] = "wOrKeR-a.js" -> "worker-a.js"
       [] s[i] = "wOrKeR-b.js" -> "worker-b.js"
       [] OTHER -> s[i]]

\* SubscriptionManager.urlBase64ToUint8Array: pad to a multiple of four,
\* turn the URL-safe alphabet into the standard one, decode to bytes.
urlBase64ToUint8Array(base64String) ==
  LET n == (4 - (Len(base64String) % 4)) % 4
      padding == [i \in 1..n |-> "="]
      base64 == [i \in 1..Len(base64String) + n |->
                   IF i > Len(base64String) THEN padding[i - Len(base64String)]
                   ELSE IF base64String[i] = "-" THEN "+"
                   ELSE IF base64String[i] = "_" THEN "/"
                   ELSE base64String[i]]
  IN <<"Uint8Array">> \o base64

\* Database.getSubscription().deviceId.value
PersistedDeviceId == db.userId

\* Database.put(store, record)
DatabasePut(d, key, value) == [d EXCEPT ![key] = value]

(***************************************************************************)
(* managers/SubscriptionManager.ts: subscribe                              *)
(***************************************************************************)
isSafari == browser.safari

\* subscribe() up to its first await.  In the worker it runs into
\* subscribeFcmFromWorker's check of self.registration.active.
SubscribeEntry ==
  IF env = "ServiceWorker"
  THEN IF registrations[PageScope].active = NoWorker
       THEN Throw("ServiceWorkerNotActivated")
       ELSE pc' = "worker_permission" /\ result' = "pending"
  ELSE IF env \in {"Host", "OneSignalProxyFrame"}
  THEN pc' = "page_permission" /\ result' = "pending"
  ELSE Throw("UnsupportedEnvironment")

CallSubscribe ==
  /\ Call("subscribe")
  /\ SubscribeEntry
  /\ UNCHANGED <<Fixed, Platform, db, Messenger>>

\* The call in progress as it is kept while another call runs.
Frame == [op |-> op, pc |-> pc, locals |-> locals, result |-> result]

\* No second call.
NoCall == [op |-> "none", pc |-> "done", locals |-> DefaultLocals, result |-> "ok"]

\* subscribe() with no other call awaiting.
CallSubscribeAlone ==
  /\ suspended.pc = "done"
  /\ Call("subscribe")
  /\ SubscribeEntry
  /\ suspended' = NoCall
  /\ UNCHANGED <<env, config, browser, inbox, serial, Platform, db, Messenger>>

\* subscribe() is called again while an earlier subscribe() is suspended at
\* one of its awaits: the earlier call is set aside and the new one starts.
CallSubscribeConcurrently ==
  /\ op = "subscribe"
  /\ pc # "done"
  /\ suspended = NoCall
  /\ suspended' = Frame
  /\ op' = "subscribe"
  /\ locals' = DefaultLocals
  /\ SubscribeEntry
  /\ UNCHANGED <<env, config, browser, inbox, serial, Platform, db, Messenger,
                 events>>

\* The event loop continues the suspended call; the call that ran until now
\* waits at its await (or has finished).
Resume ==
  /\ suspended.pc # "done"
  /\ suspended' = Frame
  /\ op' = suspended.op
  /\ pc' = suspended.pc
  /\ locals' = suspended.locals
  /\ result' = suspended.result
  /\ UNCHANGED <<env, config, browser, inbox, serial, Platform, db, Messenger,
                 events>>

\* Variant: the permission read is not compared with Denied.
PermissionBlocksNever(notificationPermission) == FALSE

\* notificationPermissionBeforeSubscribing === NotificationPermission.Denied
PermissionBlocks(notificationPermission) == notificationPermission = "denied"

\* Variant: the Safari web id is not checked.
WebIdNeverMissing == FALSE

\* !this.config.safariWebId
MissingSafariWebId == config.safariWebId = EmptyStr

\* await OneSignal.getNotificationPermission(), then the Safari or the
\* standards-based branch.  subscribeSafari() runs up to the permission
\* prompt: it throws if no web id is configured.
SubscribePagePermission ==
  /\ pc = "page_permission"
  /\ locals' = [locals EXCEPT !.notificationPermissionBeforeSubscribing = permission]
  /\ IF PermissionBlocks(permission)
     THEN /\ Throw("Blocked")
          /\ events' = Append(events, Event("getNotificationPermission", <<>>))
     ELSE IF isSafari
     THEN IF MissingSafariWebId
          THEN /\ Throw("MissingSafariWebId")
               /\ events' = Append(events, Event("getNotificationPermission", <<>>))
          ELSE /\ pc' = "safari_prompt"
               /\ events' = events \o <<Event("getNotificationPermission", <<>>),
                                        Event("requestPermission", config.safariWebId)>>
               /\ UNCHANGED result
     ELSE /\ pc' = "should_install"
          /\ events' = Append(events, Event("getNotificationPermission", <<>>))
          /\ UNCHANGED result
  /\ UNCHANGED <<Fixed, Platform, db, Messenger, op>>

SafariDeviceTokens == {EmptyStr, <<"A1B2">>}

\* Variant: a missing device token is passed on to the registration.
SubscribeSafariResponseUnchecked ==
  /\ pc = "safari_prompt"
  /\ \E deviceToken \in SafariDeviceTokens :
       /\ locals' = [locals EXCEPT
                       !.rawPushSubscription.safariDeviceToken = toLowerCase(deviceToken)]
       /\ permission' = "granted"
       /\ events' = Append(events, Event("trigger", <<"notificationPermissionChange">>))
       /\ pc' = "register_check"
       /\ UNCHANGED result
  /\ UNCHANGED <<Fixed, registrations, controller, pushSubscription, db,
                 Messenger, op>>

\* The Safari prompt calls back with or without a device token.
SubscribeSafariResponse ==
  /\ pc = "safari_prompt"
  /\ \E deviceToken \in SafariDeviceTokens :
       IF deviceToken = EmptyStr
       THEN /\ Throw("InvalidSafariSetup")
            /\ UNCHANGED <<locals, events, permission>>
       ELSE /\ locals' = [locals EXCEPT
                 !.rawPushSubscription.safariDeviceToken = toLowerCase(deviceToken)]
            /\ permission' = "granted"
            /\ events' = Append(events, Event("trigger", <<"notificationPermissionChange">>))
            /\ pc' = "register_check"
            /\ UNCHANGED result
  /\ UNCHANGED <<Fixed, registrations, controller, pushSubscription, db,
                 Messenger, op>>

\* Variant: only a denied permission stops the worker.
SubscribeWorkerPermissionUnlessDenied ==
  /\ pc = "worker_permission"
  /\ IF permission = "denied" THEN Throw("Blocked")
     ELSE pc' = "fcm" /\ UNCHANGED result
  /\ UNCHANGED <<Fixed, Platform, db, Messenger, op, locals, events>>

\* await self.registration.pushManager.permissionState(...)
SubscribeWorkerPermission ==
  /\ pc = "worker_permission"
  /\ IF permission = "denied" THEN Throw("Blocked")
     ELSE IF permission = "default" THEN Throw("Default")
     ELSE pc' = "fcm" /\ UNCHANGED result
  /\ UNCHANGED <<Fixed, Platform, db, Messenger, op, locals, events>>

\* Variant: the worker is installed whatever the state.
shouldInstallWorkerAlways == TRUE

\* ServiceWorkerManager.shouldInstallWorker
shouldInstallWorker == getActiveState \notin {"WorkerA", "WorkerB"}

\* if (await shouldInstallWorker()) await installWorker();
SubscribeShouldInstall ==
  /\ pc = "should_install"
  /\ locals' = [locals EXCEPT !.installCheck = getActiveState]
  /\ pc' = IF shouldInstallWorker THEN "install" ELSE "ready"
  /\ UNCHANGED <<Fixed, Platform, db, Messenger, op, result, events>>

\* await navigator.serviceWorker.ready: resolves once the page's registration
\* has an active worker.
SubscribeReady ==
  /\ pc = "ready"
  /\ getRegistration.active # NoWorker
  /\ events' = Append(events, Event("trigger", <<"permissionPromptDisplay">>))
  /\ pc' = "fcm"
  /\ UNCHANGED <<Fixed, Platform, db, Messenger, op, locals, result>>

\* Variant: a configured VAPID key replaces the options of an existing
\* subscription.
SubscribeOptionsPreferringConfiguredKey(existingPushSubscription) ==
  IF browser.supportsVapid /\ config.vapidPublicKey # EmptyStr
  THEN [NoOptions EXCEPT !.applicationServerKey =
                            urlBase64ToUint8Array(config.vapidPublicKey)]
  ELSE IF existingPushSubscription.present /\ browser.pushSubscriptionOptions
  THEN existingPushSubscription.options
  ELSE NoOptions

\* Variant: a configured VAPID key is used whether or not VAPID is supported.
SubscribeOptionsIgnoringSupport(existingPushSubscription) ==
  IF existingPushSubscription.present /\ browser.pushSubscriptionOptions
  THEN existingPushSubscription.options
  ELSE IF config.vapidPublicKey # EmptyStr
  THEN [NoOptions EXCEPT !.applicationServerKey =
                            urlBase64ToUint8Array(config.vapidPublicKey)]
  ELSE NoOptions

\* The options subscribeFcmVapidOrLegacyKey subscribes with.
SubscribeOptions(existingPushSubscription) ==
  IF existingPushSubscription.present
  THEN IF browser.pushSubscriptionOptions
       THEN existingPushSubscription.options
       ELSE IF browser.supportsVapid /\ config.vapidPublicKey # EmptyStr
            THEN [NoOptions EXCEPT !.applicationServerKey = config.vapidPublicKey]
            ELSE NoOptions
  ELSE IF browser.supportsVapid /\ config.vapidPublicKey # EmptyStr
       THEN [NoOptions EXCEPT !.applicationServerKey =
                                 urlBase64ToUint8Array(config.vapidPublicKey)]
       ELSE NoOptions

\* Variant: no existing subscription is unsubscribed.
UnsubscribesNoExisting(existingPushSubscription) == FALSE

\* Variant: every existing subscription is unsubscribed first.
UnsubscribesAnyExisting(existingPushSubscription) ==
  existingPushSubscription.present

\* existingPushSubscription.unsubscribe() is called for an existing
\* subscription that does not expose its options.
UnsubscribesExisting(existingPushSubscription) ==
  existingPushSubscription.present /\ ~browser.pushSubscriptionOptions

\* subscribeFcmVapidOrLegacyKey up to the platform subscribe call.
SubscribeFcmGetSubscription ==
  /\ pc = "fcm"
  /\ LET existingPushSubscription == pushSubscription
     IN /\ locals' = [locals EXCEPT
                         !.existingPushSubscription = existingPushSubscription,
                         !.options = SubscribeOptions(existingPushSubscription)]
        /\ IF UnsubscribesExisting(existingPushSubscription)
           THEN /\ pushSubscription' = NoPushSubscription
                /\ events' = Append(events, Event("pushUnsubscribe", <<>>))
           ELSE UNCHANGED <<pushSubscription, events>>
  /\ pc' = "fcm_subscribe"
  /\ UNCHANGED <<Fixed, registrations, controller, permission, db, Messenger,
                 op, result>>

\* The key bytes of subscribe options, whatever buffer type carries them.
KeyBytes(options) ==
  IF options.applicationServerKey = EmptyStr THEN EmptyStr
  ELSE Tail(options.applicationServerKey)

\* await workerRegistration.pushManager.subscribe(options).  The platform
\* prompts a page whose permission is undecided, rejects without permission
\* and on a sender mismatch with a live subscription, and otherwise returns
\* the live subscription or a new one.
SubscribeFcmSubscribe ==
  /\ pc = "fcm_subscribe"
  /\ events' = Append(events, Event("pushSubscribe", locals.options))
  /\ \E answer \in {"granted", "denied"}, endpoint \in Endpoints :
       LET prompts == permission = "default" /\ env # "ServiceWorker"
           decided == IF prompts THEN answer ELSE permission
           mismatch == pushSubscription.present
                       /\ KeyBytes(pushSubscription.options) # KeyBytes(locals.options)
       IN /\ prompts \/ answer = "granted"
          /\ permission' = decided
          /\ IF decided # "granted" \/ mismatch
             THEN /\ endpoint = CHOOSE e \in Endpoints : TRUE
                  /\ Throw("PushSubscribeRejected")
                  /\ UNCHANGED <<pushSubscription, locals>>
             ELSE /\ pushSubscription.present => endpoint = pushSubscription.endpoint
                  /\ pushSubscription' = [present |-> TRUE, options |-> locals.options,
                                          endpoint |-> endpoint]
                  /\ locals' = [locals EXCEPT !.rawPushSubscription.w3cEndpoint = endpoint]
                  /\ pc' = "register_check"
                  /\ UNCHANGED result
  /\ UNCHANGED <<Fixed, registrations, controller, db, Messenger, op>>

(***************************************************************************)
(* SubscriptionManager.registerSubscriptionWithOneSignal                   *)
(***************************************************************************)
\* Variant: the device is never taken for registered.
NeverRegisteredWithOneSignal == FALSE

\* isAlreadyRegisteredWithOneSignal: !!deviceId.value
isAlreadyRegisteredWithOneSignal == PersistedDeviceId # EmptyStr

\* if (await this.isAlreadyRegisteredWithOneSignal())
RegisterCheck ==
  /\ pc = "register_check"
  /\ locals' = [locals EXCEPT !.alreadyRegistered = isAlreadyRegisteredWithOneSignal]
  /\ pc' = "register_backend"
  /\ UNCHANGED <<Fixed, Platform, db, Messenger, op, result, events>>

\* Variant: the event is triggered in every context.
RegisteredEverywhere == <<Event("trigger", <<"register">>)>>

\* The event a successful backend call is followed by outside the worker.
Registered ==
  IF env # "ServiceWorker" THEN <<Event("trigger", <<"register">>)>> ELSE <<>>

\* OneSignalApi.updateUserSession(deviceId, ...) with the identity read from
\* the database, or OneSignalApi.createUser(...); either may fail.
\* Variant: a failed backend call is made a second time before the failure
\* is passed on.
RegisterBackendRetrying ==
  /\ pc = "register_backend"
  /\ LET call == IF locals.alreadyRegistered
                 THEN Event("updateUserSession", PersistedDeviceId)
                 ELSE Event("createUser", <<>>)
     IN \E id \in DeviceIds, ok \in BOOLEAN :
          IF ok THEN /\ locals' = [locals EXCEPT !.newDeviceId = id]
                     /\ events' = events \o <<call>> \o Registered
                     /\ pc' = "register_persist" /\ UNCHANGED result
          ELSE /\ id = CHOOSE d \in DeviceIds : TRUE
               /\ events' = events \o <<call, call>>
               /\ Throw("BackendError") /\ UNCHANGED locals
  /\ UNCHANGED <<Fixed, Platform, db, Messenger, op>>

RegisterBackend ==
  /\ pc = "register_backend"
  /\ LET call == IF locals.alreadyRegistered
                 THEN Event("updateUserSession", PersistedDeviceId)
                 ELSE Event("createUser", <<>>)
     IN \E id \in DeviceIds, ok \in BOOLEAN :
          IF ok
          THEN /\ locals' = [locals EXCEPT !.newDeviceId = id]
               /\ events' = events \o <<call>> \o Registered
               /\ pc' = "register_persist"
               /\ UNCHANGED result
          ELSE /\ id = CHOOSE d \in DeviceIds : TRUE
               /\ events' = Append(events, call)
               /\ Throw("BackendError")
               /\ UNCHANGED locals
  /\ UNCHANGED <<Fixed, Platform, db, Messenger, op>>

\* The two Database.put calls, then the Subscription returned: the token is
\* pushSubscription.w3cEndpoint.toString(), which throws without an endpoint.
RegisterPersist ==
  /\ pc = "register_persist"
  /\ db' = DatabasePut(DatabasePut(db, "optedOut", "false"), "userId", locals.newDeviceId)
  /\ events' = events \o <<Event("put", <<"optedOut">>), Event("put", <<"userId">>)>>
  /\ IF locals.rawPushSubscription.w3cEndpoint = EmptyStr
     THEN Throw("TypeError")
     ELSE IF op = "registerForPush"
     THEN pc' = "push_registered" /\ UNCHANGED result
     ELSE Return
  /\ UNCHANGED <<Fixed, Platform, Messenger, op, locals>>

(***************************************************************************)
(* SubscriptionHelper.registerForPush                                      *)
(***************************************************************************)
\* Variant: every context is taken for the Host page.
RegistersForPushAnywhere == TRUE

\* env === WindowEnvironmentKind.Host
RegistersForPushHere == env = "Host"

\* registerForPush() up to the first await of the subscribe() it calls.
CallRegisterForPush ==
  /\ Call("registerForPush")
  /\ IF RegistersForPushHere
     THEN pc' = "page_permission" /\ result' = "pending"
     ELSE Throw("UnsupportedEnvironment")
  /\ UNCHANGED <<Fixed, Platform, db, Messenger>>

\* After subscribe() returned: the identity and the token are stored and the
\* change events triggered.
RegisterForPushPersist ==
  /\ pc = "push_registered"
  /\ db' = DatabasePut(DatabasePut(db, "userId", locals.newDeviceId),
                       "registrationId", locals.rawPushSubscription.w3cEndpoint)
  /\ events' = events \o <<Event("put", <<"userId">>),
                           Event("put", <<"registrationId">>),
                           Event("trigger", <<"notificationPermissionChange">>),
                           Event("trigger", <<"checkSubscriptionChanged">>)>>
  /\ Return
  /\ UNCHANGED <<Fixed, Platform, Messenger, op, locals>>

(***************************************************************************)
(* SubscriptionManager.unsubscribe                                         *)
(***************************************************************************)
\* UnsubscriptionStrategy, and a value outside the enumeration.
UnsubscriptionStrategy == {"DestroySubscription", "MarkUnsubscribed", "Other"}

\* Variant: marking unsubscribed is carried out in every context.
MarksUnsubscribedAnywhere == TRUE

\* SdkEnvironment.getWindowEnv() === WindowEnvironmentKind.ServiceWorker
MarksUnsubscribedHere == env = "ServiceWorker"

\* unsubscribe(strategy) up to its first await: only MarkUnsubscribed in the
\* worker goes on, everything else throws NotImplementedError.
CallUnsubscribe ==
  \E strategy \in UnsubscriptionStrategy :
    /\ Idle
    /\ op' = "unsubscribe"
    /\ locals' = [DefaultLocals EXCEPT !.strategy = strategy]
    /\ events' = <<>>
    /\ IF strategy = "MarkUnsubscribed" /\ MarksUnsubscribedHere
       THEN pc' = "unsubscribe_backend" /\ result' = "pending"
       ELSE Throw("NotImplemented")
    /\ UNCHANGED <<Fixed, Platform, db, Messenger>>

\* Variant: optedOut is stored even though the backend call failed.
UnsubscribeBackendIgnoringFailure ==
  /\ pc = "unsubscribe_backend"
  /\ events' = Append(events, Event("updatePlayer", PersistedDeviceId))
  /\ \E ok \in BOOLEAN :
       IF ok THEN pc' = "unsubscribe_persist" /\ UNCHANGED <<result, db>>
       ELSE Throw("BackendError") /\ db' = DatabasePut(db, "optedOut", "true")
  /\ UNCHANGED <<Fixed, Platform, Messenger, op, locals>>

\* const { deviceId } = await Database.getSubscription();
\* await OneSignalApi.updatePlayer(appId, deviceId, { notification_types: MutedByApi })
UnsubscribeBackend ==
  /\ pc = "unsubscribe_backend"
  /\ events' = Append(events, Event("updatePlayer", PersistedDeviceId))
  /\ \E ok \in BOOLEAN :
       IF ok THEN pc' = "unsubscribe_persist" /\ UNCHANGED result
       ELSE Throw("BackendError")
  /\ UNCHANGED <<Fixed, Platform, db, Messenger, op, locals>>

\* await Database.put('Options', {key: 'optedOut', value: true});
UnsubscribePersist ==
  /\ pc = "unsubscribe_persist"
  /\ db' = DatabasePut(db, "optedOut", "true")
  /\ events' = Append(events, Event("put", <<"optedOut">>))
  /\ Return
  /\ UNCHANGED <<Fixed, Platform, Messenger, op, locals>>

(***************************************************************************)
(* WorkerMessenger: on / once / off and the message handlers               *)
(***************************************************************************)
\* Callbacks a caller may register, each at most once in a behaviour so that
\* a registration is known by its callback.
Callbacks == {"f", "g", "h"}

Payloads == {<<"x">>, <<"y">>}

\* An entry of the messenger's history.
MessengerEvent(e, command, callback, payload) ==
  Event(e, [command |-> command, callback |-> callback, payload |-> payload])

WasRegistered(callback) ==
  \E i \in 1..Len(events) :
    events[i].e \in {"on", "once"} /\ events[i].a.callback = callback

\* The entries of the history that are not invocations.
Requests == SelectSeq(events, LAMBDA ev : ev.e # "invoke")

MessengerIdle ==
  /\ env \in {"Host", "ServiceWorker"}
  /\ Idle
  /\ Len(Requests) < MaxRequests

\* WorkerMessenger.on
On ==
  \E command \in WorkerMessengerCommand, callback \in Callbacks :
    /\ MessengerIdle
    /\ ~WasRegistered(callback)
    /\ replies' = addListener(command, callback, FALSE)
    /\ events' = Append(events, MessengerEvent("on", command, callback, EmptyStr))
    /\ UNCHANGED <<Fixed, Platform, db, toWorker, toPage, listening, op, pc,
                   locals, result>>

\* WorkerMessenger.once
Once ==
  \E command \in WorkerMessengerCommand, callback \in Callbacks :
    /\ MessengerIdle
    /\ ~WasRegistered(callback)
    /\ replies' = addListener(command, callback, TRUE)
    /\ events' = Append(events, MessengerEvent("once", command, callback, EmptyStr))
    /\ UNCHANGED <<Fixed, Platform, db, toWorker, toPage, listening, op, pc,
                   locals, result>>

\* WorkerMessenger.off
Off ==
  \E command \in WorkerMessengerCommand :
    /\ MessengerIdle
    /\ replies' = deleteListenerRecords(command)
    /\ events' = Append(events, MessengerEvent("off", command, "", EmptyStr))
    /\ UNCHANGED <<Fixed, Platform, db, toWorker, toPage, listening, op, pc,
                   locals, result>>

\* onPageMessageReceivedFromServiceWorker (page) and
\* onWorkerMessageReceivedFromPage (worker), which run the same steps: the
\* one-shot records found are deleted, then every record found is called
\* with the payload.
OnMessageReceived ==
  \E command \in WorkerMessengerCommand, payload \in Payloads :
    LET listenerRecords == findListenersForMessage(command)
        listenersToCall == ListenersToCall(listenerRecords)
    IN /\ MessengerIdle
       /\ listening
       /\ replies' = AfterDeletingOneShots(command)
       /\ events' = events
            \o <<MessengerEvent("message", command, "", payload)>>
            \o [i \in 1..Len(listenersToCall) |->
                  MessengerEvent("invoke", command, listenersToCall[i].callback, payload)]
       /\ UNCHANGED <<Fixed, Platform, db, toWorker, toPage, listening, op, pc,
                      locals, result>>

(***************************************************************************)
(* WorkerMessenger.unicast in the service worker                           *)
(***************************************************************************)
\* The window clients of the worker, and the argument left out.
Clients == {"client1", "client2"}

NoClient == "undefined"

\* A variant that posts to every window client, as broadcast does.
PostMessageToAll(box, windowClient, message) ==
  [client \in Clients |-> Append(box[client], message)]

\* windowClient.postMessage(message)
PostMessage(box, windowClient, message) ==
  [box EXCEPT ![windowClient] = Append(@, message)]

\* unicast(command, payload, windowClient), worker branch: without a window
\* client it throws InvalidArgumentError(windowClient, Empty); otherwise it
\* posts { command, payload } to the client.
UnicastFromWorker ==
  \E command \in WorkerMessengerCommand, payload \in Payloads,
     windowClient \in Clients \cup {NoClient} :
    /\ env = "ServiceWorker"
    /\ Idle
    /\ Len(Requests) < MaxRequests
    /\ events' = Append(events,
                        Event("unicast", [command |-> command, payload |-> payload,
                                          windowClient |-> windowClient]))
    /\ IF windowClient = NoClient
         THEN /\ result' = "InvalidArgumentEmpty"
              /\ UNCHANGED inbox
         ELSE /\ inbox' = PostMessage(inbox, windowClient, Message(command, payload))
              /\ result' = "ok"
    /\ UNCHANGED <<env, config, browser, serial, suspended, Platform, db,
                   Messenger, op, pc, locals>>

(***************************************************************************)
(* models/Subscription.ts: serialize / deserialize                         *)
(***************************************************************************)
\* What reading a property an object does not have yields.
Undefined == <<"undefined">>

\* bundle.key
Property(bundle, key) ==
  IF key \in DOMAIN bundle THEN bundle[key] ELSE Undefined

\* Uuid.serialize / Uuid.deserialize: the identity's value as a string and back.
UuidSerialize(uuid) == uuid.value

UuidDeserialize(value) == [value |-> value]

\* Subscription.serialize
SubscriptionSerialize(subscription) ==
  [safariDeviceId |-> UuidSerialize(subscription.deviceId),
   subscriptionToken |-> subscription.subscriptionToken,
   optedOut |-> subscription.optedOut]

\* Subscription.deserialize
SubscriptionDeserialize(bundle) ==
  [deviceId |-> UuidDeserialize(Property(bundle, "safariDeviceId")),
   subscriptionToken |-> Property(bundle, "pushEndpoint"),
   optedOut |-> Property(bundle, "optedOut")]

SubscriptionTokens ==
  {EmptyStr, <<"a1b2">>, <<"c3d4">>} \cup Endpoints

SerialDeviceIds == DeviceIds \cup {<<"id3">>, <<"id4">>}

Subscriptions ==
  [deviceId : {[value |-> id] : id \in SerialDeviceIds},
   subscriptionToken : SubscriptionTokens,
   optedOut : BOOLEAN]

NoSubscription ==
  [deviceId |-> [value |-> EmptyStr], subscriptionToken |-> EmptyStr,
   optedOut |-> FALSE]

NoSerial ==
  [stage |-> "object", subscription |-> NoSubscription,
   bundle |-> SubscriptionSerialize(NoSubscription), restored |-> NoSubscription]

\* s.serialize()
Serialize ==
  /\ serial.stage = "object"
  /\ serial' = [serial EXCEPT !.stage = "bundle",
                              !.bundle = SubscriptionSerialize(serial.subscription)]
  /\ UNCHANGED <<env, config, browser, Platform, db, Messenger, op, pc, locals,
                 result, events, inbox, suspended>>

\* Subscription.deserialize(bundle)
Deserialize ==
  /\ serial.stage = "bundle"
  /\ serial' = [serial EXCEPT !.stage = "restored",
                              !.restored = SubscriptionDeserialize(serial.bundle)]
  /\ UNCHANGED <<env, config, browser, Platform, db, Messenger, op, pc, locals,
                 result, events, inbox, suspended>>

(***************************************************************************)
(* Initial states                                                          *)
(***************************************************************************)
SafariWebId == <<"web.onesignal.auto.01">>

Browsers ==
  {[safari |-> TRUE, supportsVapid |-> FALSE, pushSubscriptionOptions |-> FALSE]}
  \cup [safari : {FALSE}, supportsVapid : BOOLEAN, pushSubscriptionOptions : BOOLEAN]

\* Context's constructor: the managers' configuration for a browser.
Configs(b) ==
  {[workerAPath |-> paths.workerAPath, workerBPath |-> paths.workerBPath,
    registrationOptions |-> [scope |-> ConfigScope], appId |-> AppId,
    safariWebId |-> webId, vapidPublicKey |-> key] :
     paths \in (IF b.safari THEN {DefaultPaths} ELSE PathPairs),
     webId \in (IF b.safari THEN {EmptyStr, SafariWebId} ELSE {EmptyStr}),
     key \in (IF b.safari THEN {EmptyStr} ELSE {EmptyStr, VapidPublicKey})}

\* A script URL an earlier run of the SDK registered for a slot.
InstalledURL(path) == ScriptURL(path \o <<"?">> \o encodeHashAsUriComponent(AppId))

\* The registration of the page's scope, the controller and the push
\* subscription a call may find.
InitialPlatforms(c, b) ==
  IF b.safari
  THEN {[reg |-> NoRegistration, controller |-> NoWorker, push |-> NoPushSubscription]}
  ELSE {[reg |-> NoRegistration, controller |-> NoWorker, push |-> NoPushSubscription],
        [reg |-> [installing |-> ScriptURL(ThirdPartyPath), active |-> NoWorker],
         controller |-> NoWorker, push |-> NoPushSubscription]}
       \cup
       UNION {
         {[reg |-> [installing |-> NoWorker, active |-> url],
           controller |-> ctl, push |-> push] :
            ctl \in {url} \cup (IF url = InstalledURL(c.workerAPath) THEN {NoWorker} ELSE {}),
            push \in {NoPushSubscription,
                      [present |-> TRUE, options |-> NoOptions,
                       endpoint |-> <<"https://push.example/", "ep1">>],
                      [present |-> TRUE,
                       options |-> [NoOptions EXCEPT !.applicationServerKey = ForeignKey],
                       endpoint |-> <<"https://push.example/", "ep1">>]}} :
         url \in {InstalledURL(c.workerAPath), InstalledURL(c.workerBPath),
                  ScriptURL(ThirdPartyPath)}}

InitialDatabases ==
  {[userId |-> EmptyStr, optedOut |-> "null", registrationId |-> EmptyStr],
   [userId |-> <<"id1">>, optedOut |-> "true",
    registrationId |-> <<"https://push.example/", "ep1">>]}

InitManagers ==
  /\ env \in WindowEnvironmentKind
  /\ browser \in Browsers
  /\ env = "ServiceWorker" => ~browser.safari
  /\ config \in Configs(browser)
  /\ \E p \in InitialPlatforms(config, browser) :
       /\ registrations = [s \in Scopes |-> IF s = PageScope THEN p.reg ELSE NoRegistration]
       /\ controller = p.controller
       /\ pushSubscription = p.push
  /\ permission \in NotificationPermission
  /\ db \in InitialDatabases
  /\ replies = [c \in WorkerMessengerCommand |-> Absent]
  /\ toWorker = <<>>
  /\ toPage = <<>>
  /\ listening = TRUE
  /\ op = "none"
  /\ pc = "done"
  /\ locals = DefaultLocals
  /\ result = "ok"
  /\ events = <<>>
  /\ inbox = [client \in Clients |-> <<>>]
  /\ suspended = NoCall

Init ==
  /\ InitManagers
  /\ serial = NoSerial

\* The lifecycle manager's calls, the messenger and the platform.
NextWorker ==
  \/ CallInstallWorker
  \/ InstallWorkerGetState
  \/ InstallWorkerUnregister
  \/ InstallWorkerRegister
  \/ CallUpdateWorker
  \/ UpdateWorkerGetState
  \/ CallGetWorkerVersion
  \/ GetWorkerVersion
  \/ UnicastWaitUntilWorkerControlsPage
  \/ WorkerReceive
  \/ PageReceive
  \/ UpdateWorkerDecide
  \/ PlatformActivate

InitWorker ==
  /\ Init
  /\ env = "Host"
  /\ permission = "granted"
  /\ db.userId = EmptyStr

SpecWorker == InitWorker /\ [][NextWorker]_vars

\* subscribe() in every context, with the installation it starts.
Next ==
  \/ CallSubscribe
  \/ SubscribePagePermission
  \/ SubscribeSafariResponse
  \/ SubscribeWorkerPermission
  \/ SubscribeShouldInstall
  \/ InstallWorkerGetState
  \/ InstallWorkerUnregister
  \/ InstallWorkerRegister
  \/ PlatformActivate
  \/ SubscribeReady
  \/ SubscribeFcmGetSubscription
  \/ SubscribeFcmSubscribe
  \/ RegisterCheck
  \/ RegisterBackend
  \/ RegisterPersist
  \/ CallRegisterForPush
  \/ RegisterForPushPersist
  \/ CallUnsubscribe
  \/ UnsubscribeBackend
  \/ UnsubscribePersist

Spec == Init /\ [][Next]_vars

\* The paths of the getActiveState() unit tests.
TestPaths ==
  [workerAPath |-> Path(<<"/", "wOrKeR-a.js">>),
   workerBPath |-> Path(<<"/", "wOrKeR-b.js">>)]

\* The worker scripts of the getActiveState() unit tests.
TestScripts == {<<"/", "Worker-A.js">>, <<"/", "Worker-B.js">>}

\* getActiveState() called again and again while the platform moves on.
NextState ==
  \/ CallGetActiveState
  \/ GetActiveStateReturn
  \/ PlatformActivate

InitState ==
  /\ env \in {"Host", "OneSignalProxyFrame"}
  /\ browser = [safari |-> FALSE, supportsVapid |-> TRUE, pushSubscriptionOptions |-> TRUE]
  /\ \E c \in Configs(browser), paths \in PathPairs \cup {TestPaths} :
       config = [c EXCEPT !.workerAPath = paths.workerAPath,
                          !.workerBPath = paths.workerBPath]
  /\ \E p \in InitialPlatforms(config, browser) \cup
               {[reg |-> [installing |-> NoWorker, active |-> ScriptURL(script)],
                 controller |-> ScriptURL(script), push |-> NoPushSubscription] :
                  script \in TestScripts} :
       /\ registrations = [s \in Scopes |-> IF s = PageScope THEN p.reg ELSE NoRegistration]
       /\ controller = p.controller
       /\ pushSubscription = p.push
  /\ permission = "granted"
  /\ db \in InitialDatabases
  /\ replies = [c \in WorkerMessengerCommand |-> Absent]
  /\ toWorker = <<>>
  /\ toPage = <<>>
  /\ listening = TRUE
  /\ op = "none"
  /\ pc = "done"
  /\ locals = DefaultLocals
  /\ result = "ok"
  /\ events = <<>>
  /\ inbox = [client \in Clients |-> <<>>]
  /\ serial = NoSerial
  /\ suspended = NoCall

SpecState == InitState /\ [][NextState]_vars

\* Listeners come and go while messages arrive, in a page and in the worker.
NextMessenger ==
  \/ On
  \/ Once
  \/ Off
  \/ OnMessageReceived

InitMessenger ==
  /\ InitManagers
  /\ env \in {"Host", "ServiceWorker"}
  /\ browser = [safari |-> FALSE, supportsVapid |-> TRUE, pushSubscriptionOptions |-> TRUE]
  /\ config.workerAPath = DefaultPaths.workerAPath
  /\ config.vapidPublicKey = VapidPublicKey
  /\ registrations[PageScope].active = InstalledURL(config.workerAPath)
  /\ controller # NoWorker
  /\ ~pushSubscription.present
  /\ permission = "granted"
  /\ db.userId = EmptyStr
  /\ serial = NoSerial

SpecMessenger == InitMessenger /\ [][NextMessenger]_vars

\* The worker sends messages to its window clients.
NextUnicast ==
  \/ UnicastFromWorker

InitUnicast ==
  /\ InitMessenger
  /\ env = "ServiceWorker"

SpecUnicast == InitUnicast /\ [][NextUnicast]_vars

\* unicast() and waitUntilWorkerControlsPage() while workers come and go.
NextControl ==
  \/ CallUnicast
  \/ CallWaitUntilWorkerControlsPage
  \/ UnicastWaitUntilWorkerControlsPage
  \/ WorkerReceive
  \/ PlatformInstall
  \/ PlatformActivate

InitControl ==
  /\ Init
  /\ env \in {"Host", "ServiceWorker"}
  /\ browser = [safari |-> FALSE, supportsVapid |-> TRUE, pushSubscriptionOptions |-> TRUE]
  /\ config.workerAPath = DefaultPaths.workerAPath
  /\ config.vapidPublicKey = VapidPublicKey
  /\ ~pushSubscription.present
  /\ permission = "granted"
  /\ db.userId = EmptyStr

SpecControl == InitControl /\ [][NextControl]_vars

\* The same, with the event loop running every continuation and handler
\* that is ready.
NextWait ==
  \/ CallWaitUntilWorkerControlsPage
  \/ UnicastWaitUntilWorkerControlsPage
  \/ PlatformInstall
  \/ PlatformActivate

SpecControlFair ==
  InitControl /\ [][NextWait]_vars /\ WF_vars(UnicastWaitUntilWorkerControlsPage)

\* Two subscribe() calls of a worker whose awaits interleave.
NextConcurrent ==
  \/ CallSubscribeAlone
  \/ CallSubscribeConcurrently
  \/ Resume
  \/ SubscribeWorkerPermission
  \/ SubscribeFcmGetSubscription
  \/ SubscribeFcmSubscribe
  \/ RegisterCheck
  \/ RegisterBackend
  \/ RegisterPersist

InitConcurrent ==
  /\ Init
  /\ env = "ServiceWorker"
  /\ browser = [safari |-> FALSE, supportsVapid |-> TRUE, pushSubscriptionOptions |-> TRUE]
  /\ config.workerAPath = DefaultPaths.workerAPath
  /\ config.vapidPublicKey = VapidPublicKey
  /\ permission = "granted"

SpecConcurrent == InitConcurrent /\ [][NextConcurrent]_vars

\* A Subscription object is serialized and the bundle deserialized.
NextSerial ==
  \/ Serialize
  \/ Deserialize

InitSerial ==
  /\ InitManagers
  /\ env = "Host"
  /\ browser = [safari |-> FALSE, supportsVapid |-> TRUE, pushSubscriptionOptions |-> TRUE]
  /\ config.workerAPath = DefaultPaths.workerAPath
  /\ config.vapidPublicKey = VapidPublicKey
  /\ registrations[PageScope] = NoRegistration
  /\ permission = "granted"
  /\ db.userId = EmptyStr
  /\ \E subscription \in Subscriptions :
       serial = [NoSerial EXCEPT !.subscription = subscription]

SpecSerial == InitSerial /\ [][NextSerial]_vars

(***************************************************************************)
(* Properties                                                              *)
(***************************************************************************)
PageContext == env \in {"Host", "OneSignalProxyFrame"}

\* The effects of the call in progress that are of the given kinds, in order.
Happened(kinds) == SelectSeq(events, LAMBDA ev : ev.e \in kinds)

Effects ==
  {"register", "unregister", "pushSubscribe", "pushUnsubscribe", "createUser",
   "updateUserSession", "put"}

SdkStates == {"WorkerA", "WorkerB"}

\* The slot installWorker is to register for the state it read.
OtherSlotPath(workerState) ==
  IF workerState = "WorkerB" THEN config.workerAPath ELSE config.workerBPath

\* C1: installWorker() registers the script of the slot that is not active:
\* the B path when it read WorkerA, None or ThirdParty, the A path when it
\* read WorkerB.
C1_InstallWorkerRegistersOtherSlot ==
  op = "installWorker" =>
    \A i \in 1..Len(events) :
      events[i].e = "register" =>
        UrlPathname(events[i].a) = OtherSlotPath(locals.workerState)

\* An installWorker() that read None has registered a script whose path is
\* not the B path.
C1_InstallWorkerRegisteredAnotherPath ==
  /\ op = "installWorker"
  /\ locals.workerState = "None"
  /\ \E i \in 1..Len(events) :
       /\ events[i].e = "register"
       /\ UrlPathname(events[i].a) # config.workerBPath

ActiveScripts == {registrations[s].active : s \in Scopes} \ {NoWorker}

RunsSlot(url, slotPath) ==
  getFileName(Path(UrlPathname(url))) = getFileName(slotPath)

\* C2: in every reachable state, over all registrations of the origin, the
\* script of worker A and the script of worker B are never both active.
C2_NeverBothSlotsActive ==
  ~ \E a, b \in ActiveScripts :
      RunsSlot(a, config.workerAPath) /\ RunsSlot(b, config.workerBPath)

\* An updateWorker() that found worker A has registered worker B, and worker
\* B has become the active worker.
C2_SlotSwapped ==
  /\ op = "updateWorker"
  /\ pc = "done"
  /\ result = "ok"
  /\ locals.workerState = "WorkerA"
  /\ Happened({"register"}) # <<>>
  /\ RunsSlot(registrations[PageScope].active, config.workerBPath)

\* C3: for every Subscription s, Subscription.deserialize(s.serialize()) has
\* the deviceId, the subscriptionToken and the optedOut flag of s.
C3_RoundTrip ==
  serial.stage = "restored" =>
    /\ serial.restored.deviceId = serial.subscription.deviceId
    /\ serial.restored.subscriptionToken = serial.subscription.subscriptionToken
    /\ serial.restored.optedOut = serial.subscription.optedOut

\* A Subscription with a token has come back from the round trip with an
\* undefined token.
C3_TokenLost ==
  /\ serial.stage = "restored"
  /\ serial.subscription.subscriptionToken # EmptyStr
  /\ serial.bundle.subscriptionToken = serial.subscription.subscriptionToken
  /\ serial.restored.subscriptionToken = Undefined

\* C4: a subscribe() in a page context that reads the permission as denied
\* has ended with Blocked, and has made no worker registration or
\* unregistration, no platform subscribe or unsubscribe, no backend call and
\* no store write; nor has it made any of them before it read the permission.
C4_DeniedFailsBlockedBeforeEffects ==
  /\ (op = "subscribe" /\ PageContext /\ pc = "page_permission")
       => Happened(Effects) = <<>>
  /\ (op = "subscribe" /\ PageContext
      /\ locals.notificationPermissionBeforeSubscribing = "denied")
       => /\ pc = "done"
          /\ result = "Blocked"
          /\ Happened(Effects) = <<>>
          /\ db.userId = locals.start.userId

\* A page-context subscribe() has found the permission denied and failed.
C4_BlockedReached ==
  /\ op = "subscribe"
  /\ PageContext
  /\ locals.start.permission = "denied"
  /\ locals.notificationPermissionBeforeSubscribing = "denied"
  /\ locals.start.userId # EmptyStr
  /\ result = "Blocked"

VapidOptions ==
  [NoOptions EXCEPT !.applicationServerKey =
                       urlBase64ToUint8Array(config.vapidPublicKey)]

C5Scenario ==
  /\ op = "subscribe"
  /\ PageContext
  /\ ~isSafari
  /\ locals.start.state = "None"
  /\ locals.start.permission = "granted"
  /\ browser.supportsVapid
  /\ config.vapidPublicKey # EmptyStr
  /\ ~locals.start.push.present
  /\ locals.start.userId = EmptyStr

\* C5: from state None with permission granted, VAPID supported and
\* configured, no platform subscription and no persisted identity, a
\* page-context subscribe() that succeeds has, in order, registered worker
\* B, subscribed with the VAPID key and called createUser (never
\* updateUserSession), and the identity returned is persisted under userId
\* with optedOut false.
C5_FreshSubscribeSequence ==
  (C5Scenario /\ pc = "done" /\ result = "ok") =>
    LET calls == Happened(Effects \ {"put"})
    IN /\ Len(calls) = 3
       /\ calls[1].e = "register"
       /\ UrlPathname(calls[1].a) = config.workerBPath
       /\ calls[2] = Event("pushSubscribe", VapidOptions)
       /\ calls[3] = Event("createUser", <<>>)
       /\ db.userId = locals.newDeviceId
       /\ db.optedOut = "false"

\* The scenario of C5 has run to success, every step as described except
\* that the script registered is not worker B's.
C5_FreshSubscribeRegisteredAnotherPath ==
  /\ C5Scenario
  /\ pc = "done"
  /\ result = "ok"
  /\ LET calls == Happened(Effects \ {"put"})
     IN /\ Len(calls) = 3
        /\ calls[1].e = "register"
        /\ UrlPathname(calls[1].a) # config.workerBPath
        /\ calls[2] = Event("pushSubscribe", VapidOptions)
        /\ calls[3] = Event("createUser", <<>>)
  /\ db.userId = locals.newDeviceId
  /\ db.optedOut = "false"

C6Scenario ==
  /\ op = "subscribe"
  /\ PageContext
  /\ ~isSafari
  /\ locals.start.state = "WorkerA"
  /\ locals.start.push.present
  /\ browser.pushSubscriptionOptions
  /\ locals.start.userId # EmptyStr

C6Expected ==
  <<Event("pushSubscribe", locals.start.push.options),
    Event("updateUserSession", locals.start.userId)>>

\* C6: from state WorkerA with a platform subscription that exposes its
\* options and a persisted identity, a page-context subscribe() never
\* unsubscribes and never calls createUser; its platform and backend calls
\* are a subscribe with the stored options followed by updateUserSession
\* with the persisted identity, both made when it succeeds.
C6_ResubscribeKeepsIdentity ==
  C6Scenario =>
    LET calls == Happened({"pushSubscribe", "updateUserSession"})
    IN /\ Happened({"pushUnsubscribe", "createUser"}) = <<>>
       /\ Len(calls) <= 2
       /\ \A i \in 1..Len(calls) : calls[i] = C6Expected[i]
       /\ (pc = "done" /\ result = "ok") => calls = C6Expected

\* The scenario of C6 has run to success although a VAPID key other than the
\* stored one is configured.
C6_Resubscribed ==
  /\ C6Scenario
  /\ pc = "done"
  /\ result = "ok"
  /\ config.vapidPublicKey # EmptyStr
  /\ locals.start.push.options.applicationServerKey = ForeignKey
  /\ Happened({"updateUserSession"}) # <<>>

\* C7: when the existing platform subscription exposes its options, the
\* options handed to the platform subscribe call are exactly those, in page
\* and in worker context, whatever key is configured and whether or not VAPID
\* is supported.
C7_ExposedOptionsReused ==
  (op = "subscribe" /\ locals.existingPushSubscription.present
   /\ browser.pushSubscriptionOptions) =>
    /\ pc = "fcm_subscribe" => locals.options = locals.existingPushSubscription.options
    /\ \A i \in 1..Len(events) :
         events[i].e = "pushSubscribe" =>
           events[i].a = locals.existingPushSubscription.options

\* In the worker, with VAPID supported and a key configured, the platform
\* subscribe call was made with the other key an existing subscription exposed.
C7_ForeignOptionsReused ==
  /\ op = "subscribe"
  /\ env = "ServiceWorker"
  /\ browser.pushSubscriptionOptions
  /\ browser.supportsVapid
  /\ config.vapidPublicKey # EmptyStr
  /\ locals.existingPushSubscription.present
  /\ locals.existingPushSubscription.options.applicationServerKey = ForeignKey
  /\ Happened({"pushSubscribe"}) # <<>>

\* C8: with no existing platform subscription and VAPID unsupported, the
\* platform subscribe call carries no application server key, whether or not
\* a VAPID public key is configured.
C8_LegacyWhenVapidUnsupported ==
  (op = "subscribe" /\ ~browser.supportsVapid
   /\ ~locals.existingPushSubscription.present) =>
    /\ pc = "fcm_subscribe" => locals.options = NoOptions
    /\ \A i \in 1..Len(events) :
         events[i].e = "pushSubscribe" => events[i].a = NoOptions

\* A subscribe() without VAPID support and without an existing subscription
\* has subscribed although a VAPID key is configured.
C8_LegacySubscribed ==
  /\ op = "subscribe"
  /\ ~browser.supportsVapid
  /\ config.vapidPublicKey # EmptyStr
  /\ ~locals.start.push.present
  /\ ~locals.existingPushSubscription.present
  /\ Happened({"pushSubscribe"}) # <<>>
  /\ result = "ok"
  /\ pc = "done"

C10_NoRegistrationWhenVersionCurrent ==
  /\ [] ((op = "updateWorker" /\ locals.workerState \in SdkStates
          /\ locals.workerVersion = SdkVersion)
           => Happened({"register", "unregister"}) = <<>>)
  /\ [][(pc = "update_decide" /\ locals.workerState \in SdkStates
         /\ locals.workerVersion = SdkVersion /\ pc' = "done")
          => /\ registrations' = registrations
             /\ controller' = controller
             /\ events' = events
             /\ result' = "ok"]_vars

\* An updateWorker() has returned after the worker reported the SDK's version.
C10_VersionCurrentReached ==
  /\ op = "updateWorker"
  /\ pc = "done"
  /\ result = "ok"
  /\ locals.workerState \in SdkStates
  /\ locals.workerVersion = SdkVersion

\* C11: an updateWorker() that read a state other than WorkerA and WorkerB
\* has returned normally, having sent no version request and made no
\* registration call.
C11_UpdateWorkerNoOpWithoutSdkWorker ==
  (op = "updateWorker" /\ pc = "done" /\ locals.workerState \notin SdkStates) =>
    /\ result = "ok"
    /\ Happened({"postMessage", "register", "unregister"}) = <<>>

\* An updateWorker() that read ThirdParty has ended with the error
\* getWorkerVersion() throws, with no effect.
C11_UpdateWorkerThrew ==
  /\ op = "updateWorker"
  /\ pc = "done"
  /\ locals.workerState = "ThirdParty"
  /\ result = "ServiceWorkerNotActivated"
  /\ events = <<>>

\* C15: an installWorker() that read Bypassed ends with
\* UnsupportedEnvironment and makes no register and no unregister call.
C15_BypassedInstallFails ==
  (op = "installWorker" /\ locals.workerState = "Bypassed") =>
    /\ Happened({"register", "unregister"}) = <<>>
    /\ pc \in {"install_register", "done"}
    /\ pc = "done" => result = "UnsupportedEnvironment"

\* An installWorker() on a page its active worker does not control has failed.
C15_BypassedInstallFailed ==
  /\ op = "installWorker"
  /\ pc = "done"
  /\ locals.workerState = "Bypassed"
  /\ locals.start.state = "Bypassed"
  /\ result = "UnsupportedEnvironment"

\* C16: getWorkerVersion() throws ServiceWorkerNotActivated whenever the
\* state it reads is not WorkerA or WorkerB, registering no listener and
\* sending no message; a call that read WorkerA or WorkerB and resolved
\* returns the payload of the first version reply it received.
C16_GetWorkerVersionContract ==
  /\ [][(pc = "version" /\ ~(getActiveState \in SdkStates) /\ pc' # pc)
          => /\ pc' = "done"
             /\ result' = "ServiceWorkerNotActivated"
             /\ replies' = replies
             /\ toWorker' = toWorker
             /\ events' = events]_vars
  /\ [] ((op = "getWorkerVersion" /\ pc = "done") =>
          \/ /\ result = "ServiceWorkerNotActivated"
             /\ locals.versionState \notin SdkStates
             /\ Happened({"postMessage", "message"}) = <<>>
          \/ /\ result = "ok"
             /\ locals.versionState \in SdkStates
             /\ Happened({"message"}) # <<>>
             /\ Happened({"message"})[1].a.command = "GetWorkerVersion"
             /\ locals.workerVersion = Happened({"message"})[1].a.payload)

\* A direct getWorkerVersion() with Worker B active has resolved with the
\* version the worker replied, which differs from the page's own.
C16_GetWorkerVersionResolved ==
  /\ op = "getWorkerVersion"
  /\ pc = "done"
  /\ result = "ok"
  /\ locals.versionState = "WorkerB"
  /\ locals.workerVersion # SdkVersion
  /\ replies["GetWorkerVersion"] = <<>>

\* C12: a getActiveState() call changes no registration, controller,
\* permission, push subscription, persisted record, listener or message
\* queue, and a call that finds the registrations and the controller as the
\* call before it did returns the same value.
C12_GetActiveStatePureRead ==
  /\ [][(pc = "get_state" /\ pc' = "done")
          => UNCHANGED <<registrations, controller, permission, pushSubscription,
                         db, replies, toWorker, toPage, listening>>]_vars
  /\ [] ((op = "getActiveState" /\ pc = "done" /\ locals.previousRead.valid
          /\ locals.previousRead.registrations = locals.read.registrations
          /\ locals.previousRead.controller = locals.read.controller)
           => locals.workerState = locals.previousRead.value)

\* A second getActiveState() in a row has returned Bypassed again.
C12_ReadTwice ==
  /\ op = "getActiveState"
  /\ pc = "done"
  /\ locals.previousRead.valid
  /\ locals.previousRead.registrations = registrations
  /\ locals.previousRead.controller = controller
  /\ locals.read.registrations = registrations
  /\ locals.workerState = "Bypassed"

\* The file name of the script a worker runs.
ScriptFileName(url) == getFileName(UrlPathname(url))

\* The state the description gives for a registration and a controller.
DescribedState(reg, ctl) ==
  CASE reg.installing = NoWorker /\ reg.active = NoWorker -> "None"
    [] reg.installing # NoWorker /\ reg.active = NoWorker -> "ThirdParty"
    [] reg.active # NoWorker /\ ctl = NoWorker -> "Bypassed"
    [] reg.active # NoWorker /\ ctl # NoWorker
       /\ ScriptFileName(reg.active) = getFileName(config.workerAPath) -> "WorkerA"
    [] reg.active # NoWorker /\ ctl # NoWorker
       /\ ScriptFileName(reg.active) # getFileName(config.workerAPath)
       /\ ScriptFileName(reg.active) = getFileName(config.workerBPath) -> "WorkerB"
    [] OTHER -> "ThirdParty"

C14_FileNamesCompareCaseInsensitively ==
  (op = "getActiveState" /\ pc = "done"
   /\ locals.read.registrations[PageScope].active # NoWorker
   /\ locals.read.controller # NoWorker) =>
    LET name == toLowerCase(ScriptFileName(locals.read.registrations[PageScope].active))
    IN /\ name = toLowerCase(getFileName(config.workerAPath))
            => locals.workerState = "WorkerA"
       /\ name = toLowerCase(getFileName(config.workerBPath))
            => locals.workerState = "WorkerB"

\* With '/wOrKeR-a.js' configured and 'Worker-A.js' active and controlling,
\* getActiveState() has returned ThirdParty.
C14_CaseDifferenceIsThirdParty ==
  /\ op = "getActiveState"
  /\ pc = "done"
  /\ config.workerAPath = TestPaths.workerAPath
  /\ locals.read.registrations[PageScope].active = ScriptURL(<<"/", "Worker-A.js">>)
  /\ locals.read.controller # NoWorker
  /\ locals.workerState = "ThirdParty"

\* The history of the messenger, read back.
IsOff(k, command) == events[k].e = "off" /\ events[k].a.command = command

IsMessage(j, command) == events[j].e = "message" /\ events[j].a.command = command

\* The callback is among those called for the message at position j.
InvokedAt(j, callback) ==
  \E i \in (j + 1)..Len(events) :
    /\ events[i].e = "invoke"
    /\ events[i].a.callback = callback
    /\ \A k \in (j + 1)..i : events[k].e = "invoke"

BufferCallbacks(command) ==
  {findListenersForMessage(command)[i].callback :
     i \in 1..Len(findListenersForMessage(command))}

\* Where in the history the callback was registered.
RegisteredAt(callback) ==
  CHOOSE r \in 1..Len(events) :
    events[r].e \in {"on", "once"} /\ events[r].a.callback = callback

\* C17: when a message with command c is received, the listeners in the
\* reply buffer for c at that moment are each called exactly once with the
\* message's payload, in the order in which they were registered.
C17_EveryListenerCalledInOrder ==
  [][(Len(events') > Len(events) /\ events'[Len(events) + 1].e = "message") =>
       LET m == events'[Len(events) + 1].a
           registered == findListenersForMessage(m.command)
           invoked == SubSeq(events', Len(events) + 2, Len(events'))
       IN /\ Len(invoked) = Len(registered)
          /\ \A i \in 1..Len(invoked) :
               invoked[i] = MessengerEvent("invoke", m.command,
                                           registered[i].callback, m.payload)
          /\ \A i, k \in 1..Len(invoked) :
               i < k => RegisteredAt(invoked[i].a.callback)
                          < RegisteredAt(invoked[k].a.callback)]_vars

\* In the worker, a message has been followed by the calls of a one-shot
\* and a durable listener.
C17_TwoListenersCalled ==
  /\ env = "ServiceWorker"
  /\ \E j \in 1..Len(events) :
       /\ events[j].e = "message"
       /\ j + 2 <= Len(events)
       /\ events[j + 1].e = "invoke"
       /\ events[j + 2].e = "invoke"
       /\ events[RegisteredAt(events[j + 1].a.callback)].e = "once"
       /\ events[RegisteredAt(events[j + 2].a.callback)].e = "on"

\* C18: a listener registered with once(c, cb) is called for the first
\* message with command c after it only, and is not in the reply buffer
\* afterwards; a listener registered with on(c, cb) is called for every
\* message with command c until off(c), and stays in the buffer until then,
\* whatever one-shot listeners are removed and whatever happens to other
\* commands.
C18_OneShotOnceDurableAlways ==
  \A r \in 1..Len(events) :
    LET c == events[r].a.command
        cb == events[r].a.callback
        later == {j \in (r + 1)..Len(events) : IsMessage(j, c)}
        cleared(j) == \E k \in (r + 1)..(j - 1) : IsOff(k, c)
        invocations == {i \in 1..Len(events) :
                          events[i].e = "invoke" /\ events[i].a.callback = cb}
    IN /\ events[r].e = "once" =>
            /\ Cardinality(invocations) <= 1
            /\ \A j \in later :
                 InvokedAt(j, cb) <=> (~cleared(j) /\ \A j2 \in later : j <= j2)
            /\ later # {} => cb \notin BufferCallbacks(c)
       /\ events[r].e = "on" =>
            /\ \A j \in later : InvokedAt(j, cb) <=> ~cleared(j)
            /\ Cardinality(invocations) <= Cardinality(later)
            /\ (~ \E k \in (r + 1)..Len(events) : IsOff(k, c))
                 => cb \in BufferCallbacks(c)

\* In a page, two messages with one command have arrived: the one-shot
\* listener was called for the first only, the durable one for both.
C18_SecondMessageSkipsOneShot ==
  /\ env = "Host"
  /\ \E r1, r2, j1, j2 \in 1..Len(events) :
       /\ r1 < r2 /\ r2 < j1 /\ j1 < j2
       /\ events[r1].e = "once"
       /\ events[r2].e = "on"
       /\ events[r2].a.command = events[r1].a.command
       /\ IsMessage(j1, events[r1].a.command)
       /\ IsMessage(j2, events[r1].a.command)
       /\ InvokedAt(j1, events[r1].a.callback)
       /\ ~InvokedAt(j2, events[r1].a.callback)
       /\ InvokedAt(j1, events[r2].a.callback)
       /\ InvokedAt(j2, events[r2].a.callback)

\* C19: off(c) empties the buffer of c and leaves the other commands'
\* listeners alone; a message with command c then calls no listener
\* registered before the off(c), none at all if none was registered since,
\* and raises no error; a listener registered afterwards with on or once is
\* called for the next message with command c.
C19_OffClearsOneCommand ==
  /\ [][(Len(events') = Len(events) + 1 /\ events'[Len(events')].e = "off") =>
          LET c == events'[Len(events')].a.command
          IN /\ (IF replies'[c] = Absent THEN <<>> ELSE replies'[c]) = <<>>
             /\ \A d \in WorkerMessengerCommand \ {c} : replies'[d] = replies[d]]_vars
  /\ [] (/\ result = "ok"
         /\ \A k \in 1..Len(events) : events[k].e = "off" =>
              LET c == events[k].a.command
                  since(j) == {r \in (k + 1)..(j - 1) :
                                 events[r].e \in {"on", "once"} /\ events[r].a.command = c}
              IN \A j \in (k + 1)..Len(events) : IsMessage(j, c) =>
                   /\ \A r \in 1..(k - 1) :
                        events[r].e \in {"on", "once"} => ~InvokedAt(j, events[r].a.callback)
                   /\ since(j) = {} => (j = Len(events) \/ events[j + 1].e # "invoke")
                   /\ \A r \in since(j) :
                        (~ \E i \in (r + 1)..(j - 1) : IsOff(i, c) \/ IsMessage(i, c))
                          => InvokedAt(j, events[r].a.callback))

\* A listener was registered, its command turned off, another listener
\* registered for it, and the next message called the second one only.
C19_ListenerAfterOffCalled ==
  \E r1, k, r2, j \in 1..Len(events) :
    /\ r1 < k /\ k < r2 /\ r2 < j
    /\ events[r1].e = "on"
    /\ IsOff(k, events[r1].a.command)
    /\ events[r2].e \in {"on", "once"}
    /\ events[r2].a.command = events[r1].a.command
    /\ IsMessage(j, events[r1].a.command)
    /\ ~InvokedAt(j, events[r1].a.callback)
    /\ InvokedAt(j, events[r2].a.callback)

\* C20: in the service worker, a unicast without a target window client
\* fails with the empty-argument error and posts no message to any client;
\* a unicast with a target client succeeds and posts exactly one message
\* { command, payload } to that client and none to any other.
C20_WorkerUnicastNeedsClient ==
  [][(Len(events') = Len(events) + 1 /\ events'[Len(events')].e = "unicast") =>
       LET u == events'[Len(events')].a
       IN IF u.windowClient = NoClient
            THEN /\ result' = "InvalidArgumentEmpty"
                 /\ inbox' = inbox
            ELSE /\ result' = "ok"
                 /\ inbox'[u.windowClient] =
                      Append(inbox[u.windowClient], Message(u.command, u.payload))
                 /\ \A client \in Clients \ {u.windowClient} :
                      inbox'[client] = inbox[client]]_vars

\* One unicast reached its client and nobody else, and a later one without
\* a client has just failed.
C20_UnicastPostedThenFailed ==
  /\ env = "ServiceWorker"
  /\ Len(events) = 2
  /\ events[1].e = "unicast"
  /\ events[1].a.windowClient = "client1"
  /\ events[2].e = "unicast"
  /\ events[2].a.windowClient = NoClient
  /\ result = "InvalidArgumentEmpty"
  /\ inbox["client1"] = <<Message(events[1].a.command, events[1].a.payload)>>
  /\ inbox["client2"] = <<>>

\* The call in progress is a page's unicast().
UnicastInProgress == PageContext /\ op = "unicast"

\* C21: a page's unicast() posts only in a step whose own control check finds
\* the active state WorkerA or WorkerB, and then posts exactly one message to
\* the controller and completes; while no SDK worker controls the page it
\* posts nothing, raises nothing and stays pending.
C21_PageUnicastWaitsForControl ==
  /\ [][/\ Len(toWorker') > Len(toWorker) =>
            /\ pc \in {"unicast_wait", "unicast_event"}
            /\ getActiveState \in SdkStates
            /\ controller # NoWorker
            /\ toWorker' = Append(toWorker, UnicastMessage)
        /\ (UnicastInProgress /\ pc # "done" /\ getActiveState \notin SdkStates) =>
            /\ Len(toWorker') <= Len(toWorker)
            /\ result' = "pending"
            /\ pc' # "done"
        /\ (UnicastInProgress /\ pc \in {"unicast_wait", "unicast_event"}
            /\ pc' # pc /\ getActiveState \in SdkStates) =>
            /\ toWorker' = Append(toWorker, UnicastMessage)
            /\ pc' = "done"
            /\ result' = "ok"]_vars
  /\ [](UnicastInProgress =>
          /\ pc # "done" => (result = "pending" /\ Happened({"postMessage"}) = <<>>)
          /\ pc = "done" => (result = "ok" /\ Len(Happened({"postMessage"})) = 1))

\* A unicast() that found the page uncontrolled has posted its one message
\* after worker B took control.
C21_PostedAfterControlGained ==
  /\ UnicastInProgress
  /\ pc = "done"
  /\ locals.firstCheck = "uncontrolled"
  /\ locals.controlEventHandled
  /\ locals.start.state \in {"None", "ThirdParty"}
  /\ getActiveState = "WorkerB"
  /\ Happened({"postMessage"}) = <<Event("postMessage", <<"Subscribe">>)>>

\* C22: waitUntilWorkerControlsPage() resolves without waiting for an event
\* when its first check finds the worker in control; otherwise it resolves
\* when the handler of the first control event has run, and not before.
C22_FirstControlEventResolves ==
  op = "waitUntilWorkerControlsPage" =>
    /\ locals.firstCheck = "controlled" => (pc = "done" /\ ~locals.controlEventHandled)
    /\ locals.controlEventHandled => pc = "done"
    /\ (pc = "done" /\ result = "ok") =>
         (locals.firstCheck = "controlled" \/ locals.controlEventHandled)

\* In a page, a third-party worker has taken control, the controllerchange
\* handler has run, and the call still waits.
C22_ThirdPartyControlKeepsWaiting ==
  /\ env = "Host"
  /\ op = "waitUntilWorkerControlsPage"
  /\ pc = "unicast_listen"
  /\ result = "pending"
  /\ locals.controlEventHandled
  /\ controller = ScriptURL(ThirdPartyPath)

\* C23: unsubscribe(DestroySubscription) in any context and
\* unsubscribe(MarkUnsubscribed) outside the worker end with the
\* not-implemented error, call no backend operation and leave the persisted
\* record as the call found it; they never complete successfully.
C23_StubsFailNotImplemented ==
  (/\ op = "unsubscribe"
   /\ \/ locals.strategy = "DestroySubscription"
      \/ locals.strategy = "MarkUnsubscribed" /\ env # "ServiceWorker") =>
    /\ pc = "done"
    /\ result = "NotImplemented"
    /\ events = <<>>
    /\ db.userId = locals.start.userId
    /\ db.optedOut = locals.start.optedOut

\* MarkUnsubscribed was refused in a page that holds an identity and has not
\* opted out.
C23_MarkUnsubscribedRefusedInPage ==
  /\ op = "unsubscribe"
  /\ env = "Host"
  /\ locals.strategy = "MarkUnsubscribed"
  /\ result = "NotImplemented"
  /\ db.userId # EmptyStr
  /\ db.optedOut = "false"

\* C24: a successful subscribe() that found an identity persisted under
\* userId leaves that same identity persisted.
C24_PersistedIdentityKept ==
  (/\ op = "subscribe"
   /\ pc = "done"
   /\ result = "ok"
   /\ locals.start.userId # EmptyStr) =>
    db.userId = locals.start.userId

\* A resubscription sent the persisted identity to updateUserSession and
\* persisted the different identity the backend answered with.
C24_IdentityReplaced ==
  /\ op = "subscribe"
  /\ pc = "done"
  /\ result = "ok"
  /\ locals.start.userId = <<"id1">>
  /\ Happened({"updateUserSession", "createUser"})
       = <<Event("updateUserSession", <<"id1">>)>>
  /\ db.userId = <<"id2">>

\* The persisted record, the permission and the platform subscription are
\* as the call in progress found them.
UntouchedSinceStart ==
  /\ db.userId = locals.start.userId
  /\ db.optedOut = locals.start.optedOut
  /\ permission = locals.start.permission
  /\ pushSubscription = locals.start.push

\* C25: subscribe() called in a popup, a modal or any context other than
\* Host, proxy frame and service worker, and registerForPush() called in any
\* context other than Host, end with the unsupported-environment error
\* without a permission query, a worker change, a platform subscribe, a
\* backend call or a store write.
C25_WrongContextFailsUnsupported ==
  (\/ op = "subscribe" /\ env \notin {"Host", "OneSignalProxyFrame", "ServiceWorker"}
   \/ op = "registerForPush" /\ env # "Host") =>
    /\ pc = "done"
    /\ result = "UnsupportedEnvironment"
    /\ events = <<>>
    /\ UntouchedSinceStart

\* registerForPush() was refused in the proxy frame, where subscribe() runs.
C25_RegisterForPushRefusedInProxyFrame ==
  /\ op = "registerForPush"
  /\ env = "OneSignalProxyFrame"
  /\ result = "UnsupportedEnvironment"
  /\ permission = "granted"
  /\ getActiveState = "WorkerA"

\* The call in progress runs the subscription negotiation.
Negotiating == op \in {"subscribe", "registerForPush"}

\* The call found an existing subscription that does not expose its options.
FoundOpaqueSubscription ==
  locals.existingPushSubscription.present /\ ~browser.pushSubscriptionOptions

\* The options of the call come from the configuration, not from an
\* existing subscription.
OptionsFromConfiguration ==
  ~(locals.existingPushSubscription.present /\ browser.pushSubscriptionOptions)

\* C26: when the negotiation finds an existing subscription that does not
\* expose its options, it unsubscribes it before the platform subscribe
\* call; and a platform subscribe whose options come from the configuration
\* is never issued while an existing subscription is still present.
C26_OpaqueSubscriptionUnsubscribedFirst ==
  /\ [][(Negotiating /\ pc = "fcm_subscribe" /\ Len(events') > Len(events)) =>
          /\ events'[Len(events')].e = "pushSubscribe"
          /\ FoundOpaqueSubscription =>
               (Happened({"pushUnsubscribe"}) # <<>> /\ ~pushSubscription.present)
          /\ OptionsFromConfiguration => ~pushSubscription.present]_vars
  /\ [](Negotiating =>
          \A i \in 1..Len(events) :
            (events[i].e = "pushSubscribe" /\ FoundOpaqueSubscription) =>
              \E j \in 1..(i - 1) : events[j].e = "pushUnsubscribe")

\* An existing subscription that hid its options was unsubscribed and the
\* page then subscribed with the configured VAPID key.
C26_UnsubscribedThenVapid ==
  /\ op = "subscribe"
  /\ PageContext
  /\ pc = "done"
  /\ result = "ok"
  /\ FoundOpaqueSubscription
  /\ Happened({"pushUnsubscribe", "pushSubscribe"})
       = <<Event("pushUnsubscribe", <<>>),
           Event("pushSubscribe",
                 [NoOptions EXCEPT !.applicationServerKey = config.vapidPublicKey])>>
  /\ config.vapidPublicKey # EmptyStr

\* The backend call of the registration has succeeded.
BackendSucceeded ==
  /\ Negotiating
  /\ \/ pc \in {"register_persist", "push_registered"}
     \/ pc = "done" /\ result = "ok"

\* C27: a registration makes at most one backend call, and a successful one
\* exactly one: updateUserSession with the persisted identity if the check
\* found one persisted, createUser otherwise.
C27_OneBackendCallPerRegistration ==
  Negotiating =>
    LET calls == Happened({"updateUserSession", "createUser"})
    IN /\ Len(calls) <= 1
       /\ BackendSucceeded =>
            calls = <<IF locals.start.userId # EmptyStr
                      THEN Event("updateUserSession", locals.start.userId)
                      ELSE Event("createUser", <<>>)>>
       /\ BackendSucceeded => locals.alreadyRegistered = (locals.start.userId # EmptyStr)

\* In the worker, a registration with a persisted identity has succeeded
\* with its one updateUserSession call.
C27_WorkerUpdatedSession ==
  /\ op = "subscribe"
  /\ env = "ServiceWorker"
  /\ pc = "done"
  /\ result = "ok"
  /\ Happened({"updateUserSession", "createUser"})
       = <<Event("updateUserSession", <<"id1">>)>>

\* The registration-completed signals of the call in progress.
RegisteredSignals ==
  SelectSeq(events, LAMBDA ev : ev = Event("trigger", <<"register">>))

\* C28: a registration emits the registration-completed signal exactly once
\* when its backend call has succeeded in a page context, never in the
\* service worker, and never when the backend call failed or was not made.
C28_RegisteredSignalOncePerPageRegistration ==
  Negotiating =>
    /\ Len(RegisteredSignals) <= 1
    /\ env = "ServiceWorker" => RegisteredSignals = <<>>
    /\ result = "BackendError" => RegisteredSignals = <<>>
    /\ Happened({"updateUserSession", "createUser"}) = <<>> => RegisteredSignals = <<>>
    /\ (BackendSucceeded /\ env # "ServiceWorker") => Len(RegisteredSignals) = 1

\* A registration has succeeded in the worker, silently.
C28_WorkerRegisteredSilently ==
  /\ op = "subscribe"
  /\ env = "ServiceWorker"
  /\ pc = "done"
  /\ result = "ok"
  /\ Happened({"createUser"}) # <<>>
  /\ RegisteredSignals = <<>>

\* C29: subscribe() in the worker fails with worker-not-activated if its
\* registration has no active worker, whatever the permission; otherwise
\* with blocked if the push permission state is denied and with
\* not-yet-granted if it is prompt; in the three cases nothing was
\* subscribed, sent to the backend or stored.
C29_WorkerChecksActiveThenPermission ==
  (op = "subscribe" /\ env = "ServiceWorker") =>
    /\ pc = "worker_permission" => (events = <<>> /\ UntouchedSinceStart)
    /\ locals.start.active = NoWorker =>
         (pc = "done" /\ result = "ServiceWorkerNotActivated")
    /\ (locals.start.active # NoWorker /\ pc = "done") =>
         /\ locals.start.permission = "denied" => result = "Blocked"
         /\ locals.start.permission = "default" => result = "Default"
    /\ result \in {"ServiceWorkerNotActivated", "Blocked", "Default"} =>
         (events = <<>> /\ UntouchedSinceStart)

\* An active worker whose push permission state is prompt has refused to
\* subscribe.
C29_PromptStopsWorker ==
  /\ op = "subscribe"
  /\ env = "ServiceWorker"
  /\ locals.start.active # NoWorker
  /\ locals.start.permission = "default"
  /\ pc = "done"
  /\ result = "Default"

\* C30: installWorker() unregisters the page's registration exactly when the
\* state it read is ThirdParty, once, and before its register call; after
\* reading WorkerA, WorkerB, None or Bypassed it unregisters nothing.
C30_UnregistersThirdPartyOnly ==
  /\ [][(Len(events') > Len(events) /\ events'[Len(events')].e = "unregister") =>
          /\ locals.workerState = "ThirdParty"
          /\ Happened({"unregister", "register"}) = <<>>
          /\ registrations'[PageScope] = NoRegistration]_vars
  /\ [](op = "installWorker" =>
          /\ Happened({"unregister"}) # <<>> => locals.workerState = "ThirdParty"
          /\ (locals.workerState = "ThirdParty" /\ pc = "install_register") =>
               Happened({"unregister", "register"}) = <<Event("unregister", PageScope)>>
          /\ (locals.workerState = "ThirdParty" /\ Happened({"register"}) # <<>>) =>
               /\ Len(Happened({"unregister", "register"})) = 2
               /\ Happened({"unregister", "register"})[1] = Event("unregister", PageScope)
          /\ pc = "install_unregister" => locals.workerState = "ThirdParty")

\* A third-party registration was unregistered and the worker of the SDK
\* registered after it.
C30_ThirdPartyReplaced ==
  /\ op = "installWorker"
  /\ pc = "done"
  /\ result = "ok"
  /\ locals.workerState = "ThirdParty"
  /\ locals.start.active = ScriptURL(ThirdPartyPath)
  /\ Len(events) = 2
  /\ events[1] = Event("unregister", PageScope)
  /\ events[2].e = "register"

\* C31: an updateWorker() that read WorkerA or WorkerB and was told a version
\* other than the SDK's makes exactly one registration call, for the script
\* of the other slot (B's after reading A, A's after reading B), which is
\* the slot installWorker() chooses for that state.
C31_UpdateRegistersOtherSlotOnce ==
  (/\ op = "updateWorker"
   /\ pc = "done"
   /\ locals.workerState \in SdkStates
   /\ locals.workerVersion \in Versions \ {SdkVersion}) =>
    LET calls == Happened({"register", "unregister"})
    IN /\ Len(calls) = 1
       /\ calls[1].e = "register"
       /\ UrlPathname(calls[1].a) =
            (IF locals.workerState = "WorkerA" THEN config.workerBPath
             ELSE config.workerAPath)
       /\ UrlPathname(calls[1].a) = InstallSlotPath(locals.workerState)

\* Worker B reported an old version and the script of slot A was registered.
C31_UpdatedFromBToA ==
  /\ op = "updateWorker"
  /\ pc = "done"
  /\ result = "ok"
  /\ locals.workerState = "WorkerB"
  /\ locals.workerVersion # SdkVersion
  /\ Happened({"register"}) = <<Event("register", InstalledURL(config.workerAPath))>>

\* The Safari prompt of the call in progress has answered.
SafariPromptAnswered ==
  /\ Negotiating
  /\ isSafari
  /\ Happened({"requestPermission"}) # <<>>
  /\ pc # "safari_prompt"

\* C32: on the Safari path a prompt that returns no device token makes
\* subscribe() fail with the invalid-Safari-setup error, and only that does;
\* the call has then prompted once, called no backend operation and written
\* nothing to the store.
C32_NoDeviceTokenFailsInvalidSetup ==
  /\ SafariPromptAnswered =>
       (locals.rawPushSubscription.safariDeviceToken = EmptyStr
          <=> result = "InvalidSafariSetup")
  /\ (Negotiating /\ result = "InvalidSafariSetup") =>
       /\ pc = "done"
       /\ isSafari
       /\ Len(Happened({"requestPermission"})) = 1
       /\ Happened({"createUser", "updateUserSession", "put"}) = <<>>
       /\ UntouchedSinceStart

\* A Safari page that holds an identity was prompted and got no token.
C32_SafariPromptGaveNoToken ==
  /\ op = "subscribe"
  /\ env = "Host"
  /\ result = "InvalidSafariSetup"
  /\ locals.start.userId # EmptyStr
  /\ locals.start.permission = "default"

\* The call in progress marks the device unsubscribed from the worker.
MarkingUnsubscribed ==
  op = "unsubscribe" /\ env = "ServiceWorker" /\ locals.strategy = "MarkUnsubscribed"

\* C33: unsubscribe(MarkUnsubscribed) in the worker calls updatePlayer for
\* the persisted identity and only then stores optedOut = true; userId and
\* registrationId keep their values throughout, and optedOut keeps its value
\* if the backend call fails.
C33_MarkUnsubscribedFlipsOptedOutOnly ==
  MarkingUnsubscribed =>
    /\ db.userId = locals.start.userId
    /\ db.registrationId = locals.start.registrationId
    /\ pc = "unsubscribe_backend" => (events = <<>> /\ db.optedOut = locals.start.optedOut)
    /\ pc = "unsubscribe_persist" =>
         /\ events = <<Event("updatePlayer", locals.start.userId)>>
         /\ db.optedOut = locals.start.optedOut
    /\ pc = "done" =>
         IF result = "ok"
         THEN /\ events = <<Event("updatePlayer", locals.start.userId),
                            Event("put", <<"optedOut">>)>>
              /\ db.optedOut = "true"
         ELSE /\ result = "BackendError"
              /\ events = <<Event("updatePlayer", locals.start.userId)>>
              /\ db.optedOut = locals.start.optedOut

\* The backend call failed for a device that had opted in, and it stays
\* opted in.
C33_BackendFailureKeepsOptedIn ==
  /\ MarkingUnsubscribed
  /\ pc = "done"
  /\ result = "BackendError"
  /\ locals.start.userId # EmptyStr
  /\ db.optedOut = "false"

\* C34: a page's subscribe() on the standards-based path goes into
\* installWorker() only if the state shouldInstallWorker() read is not
\* WorkerA or WorkerB; having read WorkerA or WorkerB it makes no register
\* and no unregister call; and it leaves the wait for readiness only when
\* the registration has an active worker, before any platform subscribe.
C34_InstallsOnlyWithoutSdkWorker ==
  /\ [][(Negotiating /\ pc = "ready" /\ pc' # "ready") =>
          /\ getRegistration.active # NoWorker
          /\ Happened({"pushSubscribe"}) = <<>>]_vars
  /\ [](Negotiating /\ PageContext /\ ~isSafari =>
          /\ pc \in {"install", "install_unregister", "install_register"} =>
               locals.installCheck \in {"None", "ThirdParty", "Bypassed"}
          /\ Happened({"register", "unregister"}) # <<>> =>
               locals.installCheck \in {"None", "ThirdParty", "Bypassed"}
          /\ locals.installCheck \in SdkStates =>
               Happened({"register", "unregister"}) = <<>>
          /\ \A i \in 1..Len(events) : events[i].e = "pushSubscribe" =>
               \E j \in 1..(i - 1) :
                 events[j] = Event("trigger", <<"permissionPromptDisplay">>))

\* With worker B active a page subscribed without touching the registration.
C34_SubscribedWithoutInstalling ==
  /\ op = "subscribe"
  /\ PageContext
  /\ pc = "done"
  /\ result = "ok"
  /\ locals.installCheck = "WorkerB"
  /\ Happened({"pushSubscribe"}) # <<>>
  /\ Happened({"register", "unregister"}) = <<>>

\* A waitUntilWorkerControlsPage() call has not resolved yet.
WaitPending == op = "waitUntilWorkerControlsPage" /\ pc # "done"

C36_NeverRegistersActiveSlot ==
  [][(/\ op = "updateWorker"
      /\ pc = "update_decide"
      /\ Len(events') = Len(events) + 1
      /\ events'[Len(events')].e = "register") =>
       LET path == UrlPathname(events'[Len(events')].a)
       IN /\ getActiveState = "WorkerA" => path # config.workerAPath
          /\ getActiveState = "WorkerB" => path # config.workerBPath]_vars

\* updateWorker() read WorkerA, worker B became the active worker during the
\* wait for the version, and the script of slot B was registered again.
C36_RegisteredTheNewlyActiveSlot ==
  /\ op = "updateWorker"
  /\ pc = "done"
  /\ config.workerAPath # config.workerBPath
  /\ locals.workerState = "WorkerA"
  /\ locals.start.state = "WorkerA"
  /\ getActiveState = "WorkerB"
  /\ UrlPathname(registrations[PageScope].active) = config.workerBPath
  /\ Len(Happened({"register"})) = 1
  /\ UrlPathname(Happened({"register"})[1].a) = config.workerBPath

\* C37: while subscribe() calls that started with no persisted device
\* identity interleave, createUser is invoked at most once.
C37_CreateUserAtMostOnce ==
  (/\ op = "subscribe"
   /\ locals.start.userId = EmptyStr
   /\ suspended.op = "subscribe" => suspended.locals.start.userId = EmptyStr) =>
    Len(Happened({"createUser"})) <= 1

\* Two subscribe() calls that both started with no identity both completed,
\* each after its own createUser call.
C37_TwoUsersCreated ==
  /\ op = "subscribe"
  /\ suspended.op = "subscribe"
  /\ pc = "done" /\ result = "ok"
  /\ suspended.pc = "done" /\ suspended.result = "ok"
  /\ locals.start.userId = EmptyStr
  /\ suspended.locals.start.userId = EmptyStr
  /\ Len(Happened({"createUser"})) = 2
  /\ Happened({"updateUserSession"}) = <<>>

\* C38: in a page, whenever the registration-completed signal is emitted
\* the store already holds optedOut=false and, under userId, the identity
\* the backend returned.
C38_StoreWrittenBeforeSignal ==
  [][(/\ PageContext
      /\ Negotiating
      /\ Len(RegisteredSignals') = Len(RegisteredSignals) + 1) =>
       /\ db'.optedOut = "false"
       /\ db'.userId = locals'.newDeviceId]_vars

\* The signal has been emitted in a page for a new user while the store
\* holds neither the opt-in nor the identity yet.
C38_SignalBeforeStore ==
  /\ PageContext
  /\ op = "subscribe"
  /\ pc = "register_persist"
  /\ Happened({"createUser"}) # <<>>
  /\ Len(RegisteredSignals) = 1
  /\ Happened({"put"}) = <<>>
  /\ db.userId = EmptyStr
  /\ db.optedOut # "false"
  /\ locals.newDeviceId # EmptyStr

\* C39: on Safari, a subscribe() whose prompt returned a device token and
\* whose backend call succeeded completes successfully; it does not fail
\* after the backend call has been made.
C39_SafariSubscribeCompletes ==
  (/\ op = "subscribe"
   /\ browser.safari
   /\ locals.rawPushSubscription.safariDeviceToken # EmptyStr
   /\ pc = "done"
   /\ result # "BackendError") =>
    result = "ok"

\* A Safari subscribe() with the lowercased device token failed with a
\* TypeError after the backend call and both writes to the store.
C39_SafariFailedAfterBackendCall ==
  /\ op = "subscribe"
  /\ browser.safari
  /\ locals.rawPushSubscription.safariDeviceToken = <<"a1b2">>
  /\ locals.rawPushSubscription.w3cEndpoint = EmptyStr
  /\ pc = "done"
  /\ result = "TypeError"
  /\ Len(Happened({"createUser", "updateUserSession"})) = 1
  /\ Len(Happened({"put"})) = 2
  /\ db.userId = locals.newDeviceId

\* C40: when the backend call of a subscribe() fails, the call ends with
\* that failure, exactly one backend call was made and none follows, and the
\* stored userId, optedOut and registrationId are those from before the call.
C40_BackendFailureLeavesStore ==
  (Negotiating /\ result = "BackendError") =>
    /\ pc = "done"
    /\ Len(Happened({"createUser", "updateUserSession"})) = 1
    /\ events[Len(events)].e \in {"createUser", "updateUserSession"}
    /\ Happened({"put"}) = <<>>
    /\ db.userId = locals.start.userId
    /\ db.optedOut = locals.start.optedOut
    /\ db.registrationId = locals.start.registrationId

\* updateUserSession failed for a device with a stored identity: the call
\* failed and the identity, the opt-out and the registration id remain.
C40_UpdateUserSessionFailed ==
  /\ op = "subscribe"
  /\ pc = "done"
  /\ result = "BackendError"
  /\ Happened({"createUser", "updateUserSession"})
       = <<Event("updateUserSession", PersistedDeviceId)>>
  /\ db.userId = <<"id1">>
  /\ db.optedOut = "true"
  /\ db.registrationId # EmptyStr

====
